---------------------------- MODULE Spec2Model ----------------------------
(***************************************************************************)
(* Extraction orchestration pipeline of the tender summariser.             *)
(*                                                                         *)
(* Part 1: the rate budget controller (app/services/groq_client.py,        *)
(*         TokenBucket and GroqRateLimiter).                               *)
(* Part 2: the fan-out extractor (app/services/batch_processor.py,         *)
(*         process_micro_batches) over call_groq_with_retry.               *)
(* Part 3: the chunk planner (batch_processor.py, chunk_text).             *)
(* Part 4: one logical capability call (groq_client.py,                    *)
(*         call_groq_with_retry).                                          *)
(* Part 5: the gap analyzer and refiller (app/services/gap_filler.py).     *)
(* Part 6: the pipeline orchestrator (app/services/summarizer.py,          *)
(*         process_tender_multi_file).                                     *)
(***************************************************************************)
EXTENDS Integers, Sequences, FiniteSets, TLC

(***************************************************************************)
(* Bounds of the model.                                                    *)
(*                                                                         *)
(* Time is counted in ticks, TicksPerMinute of them to the minute.  A      *)
(* bucket refills capacity/60 per second, that is capacity/TicksPerMinute  *)
(* per tick; to stay in the integers every level of a bucket is stored     *)
(* multiplied by TicksPerMinute, so that one tick refills `capacity'       *)
(* stored units and an amount a costs a * TicksPerMinute stored units.     *)
(* RPM_LIMIT and TPM_LIMIT are the capacities of the two buckets, scaled   *)
(* down from 3000 and 1000000.                                             *)
(***************************************************************************)
TicksPerMinute == 2
RPM_LIMIT == 2
TPM_LIMIT == 2
\* the longest time window observed, in ticks
MaxWindow == 2
\* the fan-out: at most NumChunks chunks, under a semaphore of max_concurrent
\* permits (scaled down from the default of 20)
NumChunks == 3
max_concurrent == 2
\* the chunk planner: texts of at most MaxTextLen characters, max_chars of
\* at most MaxChars
MaxTextLen == 4
MaxChars == 3

\* call_groq_with_retry(prompt, model, retries = 5)
retries == 5

Min(a, b) == IF a <= b THEN a ELSE b
Max(a, b) == IF a >= b THEN a ELSE b

\* the concurrent callers of wait_for_capacity, and "no holder" of a lock
Tasks == {"t1", "t2"}
NoTask == "none"
Buckets == {"rpm", "tpm"}
\* prompt_tokens of a reservation: nothing, one token, the whole capacity,
\* and more than the capacity
Amounts == {0, 1, TPM_LIMIT, TPM_LIMIT + 1}

VARIABLES
    tokens,       \* TokenBucket.tokens per bucket, in stored units
    elapsed,      \* time.time() - TokenBucket.last_refill per bucket, in ticks,
                  \* saturated at TicksPerMinute (a full refill)
    lock,         \* TokenBucket.lock per bucket: the task holding it, or NoTask
    pc,           \* per task: its position in wait_for_capacity
    bucket,       \* per task: the bucket its wait_for is running on
    amount,       \* per task: prompt_tokens of its reservation
    sleepLeft,    \* per task: ticks left of its asyncio.sleep
    debited,      \* per task and bucket: what its reservation was charged, -1 before
    winOpen,      \* observer: an observation window is open
    winBucket,    \* observer: the bucket the window observes
    winElapsed,   \* observer: ticks since the window opened
    winDebited,   \* observer: amount debited from winBucket since the window opened
    chunks,       \* process_micro_batches: its argument, the list of chunks
    batch,        \* process_micro_batches: "idle", "running", "returned" or "raised"
    sem,          \* asyncio.Semaphore(max_concurrent): the permits left
    cpc,          \* per chunk: position of its process_chunk task
    attempt,      \* per chunk: the loop variable i of call_groq_with_retry
    sent,         \* per chunk: the prompt handed to groq_func
    outcome,      \* per chunk: how groq_func ended, <<"ok", text>> or <<"error", e>>
    ret,          \* per chunk: what its process_chunk task returned
    done_order,   \* the chunks in the order their tasks completed
    results,      \* what process_micro_batches returned
    reserved,     \* the chunks whose call was granted a rate budget reservation
    text,         \* chunk_text: its argument text, a sequence of characters
    max_chars,    \* chunk_text: its argument max_chars
    text_chunks,  \* chunk_text: the list of chunks returned
    tpc,          \* chunk_text: "idle", "start" (called) or "done" (returned)
    callPc,       \* call_groq_with_retry: "idle", "calling" (call_groq in
                  \* flight), "sleeping" (backoff), "returned" or "raised"
    callPrompt,   \* call_groq_with_retry: its argument prompt
    callI,        \* call_groq_with_retry: the loop variable i
    callTries,    \* the number of times call_groq has been invoked by it
    callWait,     \* the asyncio.sleep of line 122 last started: base delay,
                  \* random part and rate-limit penalty, in seconds
    callErr,      \* the exception the last failed call_groq raised
    callExc,      \* the exception call_groq_with_retry raised to its caller
    callRet,      \* the response call_groq_with_retry returned
    calls,        \* the number of logical calls started so far
    base,         \* _deep_merge: its argument base
    updates,      \* _deep_merge: its argument updates
    merged,       \* _deep_merge: the dictionary returned
    mpc,          \* _deep_merge: "idle", "start" (called) or "done" (returned)
    draft,        \* fill_missing_fields: its argument draft_json
    critical,     \* fill_missing_fields: its list of critical gaps
    answer,       \* fill_missing_fields: filled_data, the parsed answer
    filled,       \* fill_missing_fields: the dictionary returned
    fillErr,      \* fill_missing_fields: the exception it caught and logged
    fpc,          \* fill_missing_fields: "idle", "start" (called), "calling"
                  \* (awaiting the extraction call) or "returned"
    doc,          \* process_tender_multi_file: combined_text, by its length
                  \* and the indicator phrases found in it
    stage,        \* the run: where it is between its stages
    trace,        \* the run: the stages started and completed so far
    portal,       \* the run: portal_type
    rule_data,    \* the run: rule_data
    est,          \* the run: tokens, the estimate of line 120
    strategy,     \* the run: "none", "SINGLE_PASS" or "HIERARCHICAL"
    context,      \* the run: the context of its structuring call
    fanCalls,     \* the run: the logical calls its fan-out has made
    summary,      \* the run: summary, the candidate record
    fields_filled,\* the run: fields_filled_count
    output,       \* the run: what process_tender_multi_file returned
    runErr,       \* the run: the exception it raised
    tree,         \* a function inspected on its own (find_missing_fields,
                  \* clean_empty_fields, ...): its argument
    gaps,         \* find_missing_fields: the list it returned
    cleaned,      \* the inspected function: the value it returned
    spc,          \* the inspected function: "idle", "start" or "done"
    first,        \* what the first of two refills returned, and the logical
                  \* calls made by then
    refills       \* the refills a caller has started after the first

bucketVars == <<tokens, elapsed, lock, pc, bucket, amount, sleepLeft, debited>>
windowVars == <<winOpen, winBucket, winElapsed, winDebited>>
fanVars == <<chunks, batch, sem, cpc, attempt, sent, outcome, ret, done_order,
             results, reserved>>
textVars == <<text, max_chars, text_chunks, tpc>>
callVars == <<callPc, callPrompt, callI, callTries, callWait, callErr, callExc,
              callRet, calls>>
mergeVars == <<base, updates, merged, mpc>>
\* the variables of parts 3 to 6
refillVars == <<draft, critical, answer, filled, fillErr, fpc>>
runVars == <<doc, stage, trace, portal, rule_data, est, strategy, context,
             fanCalls, summary, fields_filled, output, runErr>>
scanVars == <<tree, gaps, cleaned, spc>>
againVars == <<first, refills>>
extVars == <<textVars, callVars, mergeVars, refillVars, runVars, scanVars, againVars>>
vars == <<tokens, elapsed, lock, pc, bucket, amount, sleepLeft, debited,
          winOpen, winBucket, winElapsed, winDebited,
          chunks, batch, sem, cpc, attempt, sent, outcome, ret, done_order,
          results, reserved,
          text, max_chars, text_chunks, tpc,
          callPc, callPrompt, callI, callTries, callWait, callErr, callExc,
          callRet, calls,
          base, updates, merged, mpc,
          draft, critical, answer, filled, fillErr, fpc,
          doc, stage, trace, portal, rule_data, est, strategy, context,
          fanCalls, summary, fields_filled, output, runErr,
          tree, gaps, cleaned, spc, first, refills>>

(***************************************************************************)
(* TokenBucket                                                             *)
(***************************************************************************)
\* GroqRateLimiter.__init__: TokenBucket(TPM_LIMIT, ...), TokenBucket(RPM_LIMIT, ...)
capacity(b) == IF b = "rpm" THEN RPM_LIMIT ELSE TPM_LIMIT

\* refill_rate = capacity / 60 per second: stored units gained per tick
refill_rate(b) == capacity(b)

\* a bucket filled to its capacity, in stored units
Full(b) == capacity(b) * TicksPerMinute

\* min(amount, self.capacity): consume, lines 39-40, and wait_for, line 46
Capped(b, a) == Min(a, capacity(b))

\* bug: the refill is not capped to the capacity
RefilledNoCap(b) == tokens[b] + elapsed[b] * refill_rate(b)

\* consume, line 37: min(capacity, tokens + (now - last_refill) * refill_rate)
Refilled(b) == Min(Full(b), tokens[b] + elapsed[b] * refill_rate(b))

\* consume, line 39: self.tokens >= min(amount, self.capacity)
Sufficient(b, a, avail) == avail >= Capped(b, a) * TicksPerMinute

\* bug: the lock is taken whether or not somebody holds it
CanAcquireAlways(b) == TRUE

\* asyncio.Lock.acquire: the lock is taken only when nobody holds it
CanAcquire(b) == lock[b] = NoTask

\* wait_for, lines 49-50: wait = (check - tokens) / refill_rate, then
\* sleep(max(0.1, wait + 0.05)); the sleep ends at the first tick at least
\* that long after now (0.05 s and 0.1 s are shorter than a tick)
SleepTicks(b, check) ==
    Max(1, ((check * TicksPerMinute - tokens[b]) \div refill_rate(b)) + 1)

\* wait_for_capacity: rpm.wait_for(1), then tpm.wait_for(prompt_tokens)
Ask(t) == IF bucket[t] = "rpm" THEN 1 ELSE amount[t]

NotDebited == [b \in Buckets |-> -1]

\* a caller enters wait_for_capacity(n)
Reserve(t, n) ==
    /\ pc[t] = "idle"
    /\ pc' = [pc EXCEPT ![t] = "acquire"]
    /\ bucket' = [bucket EXCEPT ![t] = "rpm"]
    /\ amount' = [amount EXCEPT ![t] = n]
    /\ debited' = [debited EXCEPT ![t] = NotDebited]
    /\ UNCHANGED <<tokens, elapsed, lock, sleepLeft, windowVars, fanVars, extVars>>

\* consume, line 35: async with self.lock
Acquire(t) ==
    /\ pc[t] = "acquire"
    /\ CanAcquire(bucket[t])
    /\ lock' = [lock EXCEPT ![bucket[t]] = t]
    /\ pc' = [pc EXCEPT ![t] = "consume"]
    /\ UNCHANGED <<tokens, elapsed, bucket, amount, sleepLeft, debited, windowVars, fanVars, extVars>>

\* consume, lines 36-42, inside the lock: refill, then debit or refuse; the
\* caller's while loop (line 47) goes on to the next bucket, returns, or
\* goes to measure its wait
Consume(t) ==
    LET b == bucket[t]
        check == Capped(b, Ask(t))
        avail == Refilled(b)
        granted == Sufficient(b, check, avail)
        charge == Capped(b, check)
    IN  /\ pc[t] = "consume"
        /\ tokens' = [tokens EXCEPT ![b] =
                         IF granted THEN avail - charge * TicksPerMinute ELSE avail]
        /\ elapsed' = [elapsed EXCEPT ![b] = 0]
        /\ lock' = [lock EXCEPT ![b] = NoTask]
        /\ debited' = IF granted THEN [debited EXCEPT ![t][b] = charge] ELSE debited
        /\ winDebited' = IF granted /\ winOpen /\ winBucket = b
                            THEN winDebited + charge
                            ELSE winDebited
        /\ pc' = [pc EXCEPT ![t] =
                     IF ~granted THEN "measure"
                     ELSE IF b = "rpm" THEN "acquire" ELSE "granted"]
        /\ bucket' = [bucket EXCEPT ![t] = IF granted THEN "tpm" ELSE b]
        /\ UNCHANGED <<amount, sleepLeft, winOpen, winBucket, winElapsed, fanVars, extVars>>

\* bug: the sleep is inside `async with self.lock'
MeasureHoldsLock(t) ==
    LET b == bucket[t]
    IN  /\ pc[t] = "measure"
        /\ CanAcquire(b)
        /\ lock' = [lock EXCEPT ![b] = t]
        /\ sleepLeft' = [sleepLeft EXCEPT ![t] = SleepTicks(b, Capped(b, Ask(t)))]
        /\ pc' = [pc EXCEPT ![t] = "sleep"]
        /\ UNCHANGED <<tokens, elapsed, bucket, amount, debited, windowVars, fanVars, extVars>>

\* wait_for, lines 48-50: take the lock, read the level, release the lock
\* (nothing is written inside it), then go to sleep
Measure(t) ==
    LET b == bucket[t]
    IN  /\ pc[t] = "measure"
        /\ CanAcquire(b)
        /\ sleepLeft' = [sleepLeft EXCEPT ![t] = SleepTicks(b, Capped(b, Ask(t)))]
        /\ pc' = [pc EXCEPT ![t] = "sleep"]
        /\ UNCHANGED <<tokens, elapsed, lock, bucket, amount, debited, windowVars, fanVars, extVars>>

\* asyncio.sleep is over: back to the head of the while loop (line 47)
Wake(t) ==
    /\ pc[t] = "sleep"
    /\ sleepLeft[t] = 0
    /\ pc' = [pc EXCEPT ![t] = "acquire"]
    /\ UNCHANGED <<tokens, elapsed, lock, bucket, amount, sleepLeft, debited, windowVars, fanVars, extVars>>

\* wait_for_capacity returns to its caller
Return(t) ==
    /\ pc[t] = "granted"
    /\ pc' = [pc EXCEPT ![t] = "idle"]
    /\ bucket' = [bucket EXCEPT ![t] = "rpm"]
    /\ amount' = [amount EXCEPT ![t] = 0]
    /\ debited' = [debited EXCEPT ![t] = NotDebited]
    /\ UNCHANGED <<tokens, elapsed, lock, sleepLeft, windowVars, fanVars, extVars>>

\* one tick of the clock: time.time() grows, sleeps run down
Tick ==
    /\ elapsed' = [b \in Buckets |-> Min(TicksPerMinute, elapsed[b] + 1)]
    /\ sleepLeft' = [t \in Tasks |-> Max(0, sleepLeft[t] - 1)]
    /\ IF winOpen /\ winElapsed < MaxWindow
          THEN /\ winElapsed' = winElapsed + 1
               /\ UNCHANGED <<winOpen, winBucket, winDebited>>
          ELSE /\ winOpen' = FALSE
               /\ winBucket' = "rpm"
               /\ winElapsed' = 0
               /\ winDebited' = 0
    /\ UNCHANGED <<tokens, lock, pc, bucket, amount, debited, fanVars, extVars>>

\* The observer of the time-window property: it starts a window on bucket b
\* at the present instant.  It reads the buckets and writes only its own
\* variables; a window may start at any state, since it may have stayed
\* closed until then.
OpenWindow(b) ==
    /\ ~winOpen
    /\ winOpen' = TRUE
    /\ winBucket' = b
    /\ winElapsed' = 0
    /\ winDebited' = 0
    /\ UNCHANGED <<bucketVars, fanVars, extVars>>

\* TokenBucket.__init__ (full, refilled now, lock free); no caller yet
InitLimiter ==
    /\ tokens = [b \in Buckets |-> Full(b)]
    /\ elapsed = [b \in Buckets |-> 0]
    /\ lock = [b \in Buckets |-> NoTask]
    /\ pc = [t \in Tasks |-> "idle"]
    /\ bucket = [t \in Tasks |-> "rpm"]
    /\ amount = [t \in Tasks |-> 0]
    /\ sleepLeft = [t \in Tasks |-> 0]
    /\ debited = [t \in Tasks |-> NotDebited]
    /\ winOpen = FALSE
    /\ winBucket = "rpm"
    /\ winElapsed = 0
    /\ winDebited = 0

\* no batch has been started
InitNoBatch ==
    /\ chunks = <<>>
    /\ batch = "idle"
    /\ sem = max_concurrent
    /\ cpc = <<>>
    /\ attempt = <<>>
    /\ sent = <<>>
    /\ outcome = <<>>
    /\ ret = <<>>
    /\ done_order = <<>>
    /\ results = <<>>
    /\ reserved = {}

\* chunk_text has not been called
InitNoText ==
    /\ text = <<>>
    /\ max_chars = 0
    /\ text_chunks = <<>>
    /\ tpc = "idle"

NoWait == [base |-> 0, jitter |-> 0, penalty |-> 0]
NoError == "no error"
NoPrompt == <<>>
NoReply == <<>>

\* no logical call has been started
InitNoCall ==
    /\ callPc = "idle"
    /\ callPrompt = NoPrompt
    /\ callI = 0
    /\ callTries = 0
    /\ callWait = NoWait
    /\ callErr = NoError
    /\ callExc = NoError
    /\ callRet = NoReply
    /\ calls = 0

\* _deep_merge has not been called
InitNoMerge ==
    /\ base = <<>>
    /\ updates = <<>>
    /\ merged = <<>>
    /\ mpc = "idle"

NoAnswer == [ok |-> FALSE, d |-> <<>>]

\* fill_missing_fields has not been called
InitNoRefill ==
    /\ draft = <<>>
    /\ critical = <<>>
    /\ answer = NoAnswer
    /\ filled = <<>>
    /\ fillErr = NoError
    /\ fpc = "idle"

NoDoc == [len |-> 0, found |-> {}, rx |-> <<>>]
NoContext == [header |-> <<>>, complete |-> FALSE, text |-> NoDoc, parts |-> <<>>]
NoRuleData == <<>>
NoRecord == <<>>
NoOutput == [summary |-> <<>>, _metadata |-> <<>>]

\* no run has been started
InitNoRun ==
    /\ doc = NoDoc
    /\ stage = "IDLE"
    /\ trace = <<>>
    /\ portal = ""
    /\ rule_data = NoRuleData
    /\ est = 0
    /\ strategy = "none"
    /\ context = NoContext
    /\ fanCalls = 0
    /\ summary = NoRecord
    /\ fields_filled = 0
    /\ output = NoOutput
    /\ runErr = NoError

\* neither find_missing_fields nor clean_empty_fields has been called on
\* its own
InitNoScan ==
    /\ tree = <<>>
    /\ gaps = <<>>
    /\ cleaned = <<>>
    /\ spc = "idle"

NoFirst == [d |-> <<>>, calls |-> 0]

\* no caller refills a second time
InitNoAgain ==
    /\ first = NoFirst
    /\ refills = 0

\* nothing of parts 3 to 7 is running
InitNoExt ==
    /\ InitNoText /\ InitNoCall /\ InitNoMerge /\ InitNoRefill /\ InitNoRun
    /\ InitNoScan /\ InitNoAgain

Init == InitLimiter /\ InitNoBatch /\ InitNoExt

Next ==
    \/ \E t \in Tasks, n \in Amounts : Reserve(t, n)
    \/ \E t \in Tasks : Acquire(t)
    \/ \E t \in Tasks : Consume(t)
    \/ \E t \in Tasks : Measure(t)
    \/ \E t \in Tasks : Wake(t)
    \/ \E t \in Tasks : Return(t)
    \/ Tick

NextWindow ==
    \/ Next
    \/ \E b \in Buckets : OpenWindow(b)

Spec == Init /\ [][Next]_vars

SpecWindow == Init /\ [][NextWindow]_vars

\* The event loop runs every ready task, the clock advances, and
\* asyncio.Lock hands the lock to its waiters in arrival order: a task that
\* can take the lock again and again does take it.
Fairness ==
    /\ WF_vars(Tick)
    /\ \A t \in Tasks :
          /\ SF_vars(Acquire(t))
          /\ SF_vars(Measure(t))
          /\ WF_vars(Consume(t) \/ Wake(t) \/ Return(t))

SpecLive == Init /\ [][Next]_vars /\ Fairness

(***************************************************************************)
(* Claims about the rate budget controller                                 *)
(***************************************************************************)
\* the reservation of task t has been charged on bucket b
Charged(t, b) == debited[t][b] >= 0

\* C1: over any time window and for either bucket, the amount debited by
\* granted reservations in the window is at most capacity + elapsed time x
\* refill rate (both sides in stored units).
C1_WindowBound ==
    winOpen =>
        winDebited * TicksPerMinute
            <= Full(winBucket) + winElapsed * refill_rate(winBucket)

\* C1 witness: time has passed in a window whose debits exceed the capacity
\* and reach the bound exactly.
C1_Witness ==
    /\ winOpen
    /\ winElapsed > 0
    /\ winDebited > capacity(winBucket)
    /\ winDebited * TicksPerMinute
           = Full(winBucket) + winElapsed * refill_rate(winBucket)

\* tasks inside the critical section of consume on bucket b
InConsume(b) == {t \in Tasks : pc[t] = "consume" /\ bucket[t] = b}

\* C2: refill and debit happen inside the bucket's lock: at most one task is
\* inside consume on a bucket, it is the holder of the lock, and the level of
\* each bucket stays within 0..capacity.
C2_ExclusiveAndInRange ==
    \A b \in Buckets :
        /\ tokens[b] >= 0
        /\ tokens[b] <= Full(b)
        /\ Cardinality(InConsume(b)) <= 1
        /\ \A t \in InConsume(b) : lock[b] = t
        /\ (lock[b] # NoTask => lock[b] \in InConsume(b))

\* C2 witness: one task is inside consume on a bucket while another waits
\* for the same lock with a request the present level cannot also serve.
C2_Witness ==
    \E b \in Buckets, t \in Tasks, u \in Tasks :
        /\ t # u
        /\ lock[b] = t
        /\ pc[u] = "acquire" /\ bucket[u] = b
        /\ Refilled(b) < (Capped(b, Ask(t)) + Capped(b, Ask(u))) * TicksPerMinute
        /\ Sufficient(b, Ask(t), Refilled(b))

\* C3: a reservation debits both buckets atomically: no reservation is
\* suspended having debited the request bucket and not yet the token bucket.
C3_AtomicDebit ==
    \A t \in Tasks :
        ~(pc[t] = "sleep" /\ Charged(t, "rpm") /\ ~Charged(t, "tpm"))

\* a reservation asking for more tokens than the token bucket holds at most
Oversized(t) == pc[t] # "idle" /\ amount[t] > capacity("tpm")

\* C4: a reservation whose token cost exceeds the capacity is eventually
\* granted, charged exactly the capacity.
C4_OversizedGranted ==
    \A t \in Tasks :
        Oversized(t) ~> (pc[t] = "granted" /\ debited[t]["tpm"] = capacity("tpm"))

\* C5: a caller waiting in wait_for is eventually granted: callers that
\* started waiting later do not overtake it for ever.
C5_WaiterServed ==
    \A t \in Tasks :
        (pc[t] = "sleep" /\ amount[t] <= capacity("tpm")) ~> (pc[t] = "granted")

(***************************************************************************)
(* Fan-out extractor: process_micro_batches over call_groq_with_retry      *)
(***************************************************************************)
\* the text of the i-th chunk
ChunkText(i) == <<"chunk", i>>

\* MICRO_SUMMARY_PROMPT.format(CHUNK=chunk)
Prompt(c) == <<"MICRO_SUMMARY_PROMPT", c>>

\* res.choices[0].message.content: the capability's answer to a prompt
Reply(p) == <<"content", p>>

\* the exceptions a capability call raises: a rate-limit error and another
Errors == {"429", "timeout"}

\* f"[Error: {str(e)}]"
ErrorMarker(e) == <<"[Error: ", e, "]">>

NoOutcome == <<>>
NoResult == <<>>

Chunk == DOMAIN cpc

\* bug: a task enters without a free permit
SemAvailableAlways(s) == TRUE

\* asyncio.Semaphore.acquire: a task enters only while a permit is left
SemAvailable(s) == s > 0

\* bug: leaving the semaphore gives no permit back
SemReleaseNone(s) == s

\* asyncio.Semaphore.release, on leaving `async with semaphore'
SemRelease(s) == s + 1

\* bug: the results are collected in the order of completion
GatherAsCompleted(r, ord) == [k \in 1..Len(ord) |-> r[ord[k]]]

\* asyncio.gather: the results in the order of the awaitables passed in
Gather(r, ord) == [k \in 1..Len(r) |-> r[k]]

\* process_micro_batches(chunks, groq_func): create the semaphore and one
\* process_chunk task per chunk
InitFanOut ==
    /\ InitLimiter
    /\ InitNoExt
    /\ \E n \in 0..NumChunks :
          /\ chunks = [i \in 1..n |-> ChunkText(i)]
          /\ cpc = [i \in 1..n |-> "queued"]
          /\ attempt = [i \in 1..n |-> 0]
          /\ sent = [i \in 1..n |-> <<>>]
          /\ outcome = [i \in 1..n |-> NoOutcome]
          /\ ret = [i \in 1..n |-> NoResult]
    /\ batch = "running"
    /\ sem = max_concurrent
    /\ done_order = <<>>
    /\ results = <<>>
    /\ reserved = {}

\* bug: a chunk is given up with no call to the capability
AdmitSkips(i) ==
    /\ cpc[i] = "queued"
    /\ SemAvailable(sem)
    /\ cpc' = [cpc EXCEPT ![i] = "done"]
    /\ ret' = [ret EXCEPT ![i] = ErrorMarker("timeout")]
    /\ done_order' = Append(done_order, i)
    /\ UNCHANGED <<chunks, batch, sem, attempt, sent, outcome, results, reserved>>
    /\ UNCHANGED <<bucketVars, windowVars, extVars>>

\* process_chunk, lines 76-78: enter the semaphore and call groq_func with
\* the chunk's prompt; call_groq_with_retry starts its first attempt
Admit(i) ==
    /\ cpc[i] = "queued"
    /\ SemAvailable(sem)
    /\ sem' = sem - 1
    /\ cpc' = [cpc EXCEPT ![i] = "calling"]
    /\ attempt' = [attempt EXCEPT ![i] = 0]
    /\ sent' = [sent EXCEPT ![i] = Prompt(chunks[i])]
    /\ UNCHANGED <<chunks, batch, outcome, ret, done_order, results, reserved>>
    /\ UNCHANGED <<bucketVars, windowVars, extVars>>

\* process_chunk returns val: it leaves the semaphore and its task is done
ChunkReturns(i, val) ==
    /\ cpc' = [cpc EXCEPT ![i] = "done"]
    /\ ret' = [ret EXCEPT ![i] = val]
    /\ sem' = SemRelease(sem)
    /\ done_order' = Append(done_order, i)

\* bug: the exception leaves process_chunk, and gather raises it to the
\* caller of process_micro_batches
ChunkFailedEscapes(i, e) ==
    /\ outcome' = [outcome EXCEPT ![i] = <<"error", e>>]
    /\ cpc' = [cpc EXCEPT ![i] = "done"]
    /\ sem' = SemRelease(sem)
    /\ done_order' = Append(done_order, i)
    /\ batch' = "raised"
    /\ UNCHANGED <<chunks, attempt, sent, ret, results, reserved>>

\* process_chunk, lines 79-80: groq_func raised e; the task returns the
\* error marker in place of a result
ChunkFailed(i, e) ==
    /\ outcome' = [outcome EXCEPT ![i] = <<"error", e>>]
    /\ ChunkReturns(i, ErrorMarker(e))
    /\ UNCHANGED <<chunks, batch, attempt, sent, results, reserved>>

\* call_groq_with_retry, line 118: the attempt in flight answers; the
\* answer is what process_chunk returns (line 78)
AttemptSucceeds(i) ==
    /\ cpc[i] = "calling"
    /\ outcome' = [outcome EXCEPT ![i] = <<"ok", Reply(sent[i])>>]
    /\ ChunkReturns(i, Reply(sent[i]))
    /\ UNCHANGED <<chunks, batch, attempt, sent, results, reserved>>
    /\ UNCHANGED <<bucketVars, windowVars, extVars>>

\* call_groq_with_retry, lines 119-122: the attempt in flight raises e; the
\* last attempt re-raises, an earlier one goes to sleep for its backoff
AttemptFails(i, e) ==
    /\ cpc[i] = "calling"
    /\ IF attempt[i] = retries - 1
          THEN ChunkFailed(i, e)
          ELSE /\ cpc' = [cpc EXCEPT ![i] = "backoff"]
               /\ UNCHANGED <<chunks, batch, sem, attempt, sent, outcome, ret,
                              done_order, results, reserved>>
    /\ UNCHANGED <<bucketVars, windowVars, extVars>>

\* call_groq_with_retry, line 122 and back to line 116: the backoff sleep
\* is over and the next attempt starts
Retry(i) ==
    /\ cpc[i] = "backoff"
    /\ cpc' = [cpc EXCEPT ![i] = "calling"]
    /\ attempt' = [attempt EXCEPT ![i] = attempt[i] + 1]
    /\ UNCHANGED <<chunks, batch, sem, sent, outcome, ret, done_order, results, reserved>>
    /\ UNCHANGED <<bucketVars, windowVars, extVars>>

\* line 81: asyncio.gather returns once every task is done
BatchReturns ==
    /\ batch = "running"
    /\ \A i \in Chunk : cpc[i] = "done"
    /\ results' = Gather(ret, done_order)
    /\ batch' = "returned"
    /\ UNCHANGED <<chunks, sem, cpc, attempt, sent, outcome, ret, done_order, reserved>>
    /\ UNCHANGED <<bucketVars, windowVars, extVars>>

NextFanOut ==
    \/ \E i \in Chunk : Admit(i)
    \/ \E i \in Chunk : AttemptSucceeds(i)
    \/ \E i \in Chunk, e \in Errors : AttemptFails(i, e)
    \/ \E i \in Chunk : Retry(i)
    \/ BatchReturns

SpecFanOut == InitFanOut /\ [][NextFanOut]_vars

\* Every task that can run does run, and every capability call in flight
\* settles: it answers or it raises.
\* (A task is at one place at a time, so at most one of its steps is enabled.)
ChunkStep(i) ==
    Admit(i) \/ Retry(i) \/ AttemptSucceeds(i) \/ \E e \in Errors : AttemptFails(i, e)

FairnessFanOut ==
    /\ WF_vars(BatchReturns)
    /\ \A i \in 1..NumChunks : WF_vars(i \in Chunk /\ ChunkStep(i))

SpecFanOutLive == InitFanOut /\ [][NextFanOut]_vars /\ FairnessFanOut

(***************************************************************************)
(* Claims about the fan-out extractor                                      *)
(***************************************************************************)
\* the chunks whose task is inside `async with semaphore': a call in flight
\* or between two attempts
InFlight == {i \in Chunk : cpc[i] \in {"calling", "backoff"}}

Failed(i) == outcome[i] # NoOutcome /\ outcome[i][1] = "error"
Succeeded(i) == outcome[i] # NoOutcome /\ outcome[i][1] = "ok"

\* what the task of chunk i has to return, given how its call ended
Expected(i) ==
    IF Succeeded(i) THEN Reply(Prompt(chunks[i])) ELSE ErrorMarker(outcome[i][2])

\* i completed before j
Before(i, j) ==
    \E a \in 1..Len(done_order), b \in 1..Len(done_order) :
        a < b /\ done_order[a] = i /\ done_order[b] = j

\* C6: at no time are more than max_concurrent extraction calls in flight.
C6_ConcurrencyCeiling ==
    /\ Cardinality(InFlight) <= max_concurrent
    /\ sem = max_concurrent - Cardinality(InFlight)

\* C6 witness: every permit is taken and a further chunk is waiting.
C6_Witness ==
    /\ Cardinality(InFlight) = max_concurrent
    /\ \E i \in Chunk : cpc[i] = "queued"

\* C7: the batch returns one result per chunk, the result at position i
\* being the outcome of chunk i, whatever the order of completion.
C7_PositionalResults ==
    batch = "returned" =>
        /\ Len(results) = Len(chunks)
        /\ \A i \in Chunk : outcome[i] # NoOutcome /\ results[i] = Expected(i)

\* C7 witness: the batch has returned, a later chunk having completed
\* before an earlier one, one of them with an answer and one with an error.
C7_Witness ==
    /\ batch = "returned"
    /\ \E i \in Chunk, j \in Chunk :
          i < j /\ Before(j, i) /\ Succeeded(i) /\ Failed(j)

\* C8: a failing chunk call changes nothing of its siblings and does not
\* fail the batch: its own result becomes the error marker, the others run
\* to completion and their answers are returned as they are.
C8_FailureIsolated ==
    /\ [][\A i \in Chunk :
            (~Failed(i) /\ Failed(i)') =>
                /\ batch' = batch
                /\ ret'[i] = ErrorMarker(outcome'[i][2])
                /\ \A j \in Chunk \ {i} :
                      /\ cpc'[j] = cpc[j]
                      /\ attempt'[j] = attempt[j]
                      /\ outcome'[j] = outcome[j]
                      /\ ret'[j] = ret[j]]_vars
    /\ [](batch # "raised")
    /\ []((\A i \in Chunk : cpc[i] = "done") => batch \in {"running", "returned"})
    /\ [](batch = "returned" =>
            \A i \in Chunk :
                /\ Failed(i) \/ Succeeded(i)
                /\ Failed(i) => results[i] = ErrorMarker(outcome[i][2])
                /\ Succeeded(i) => results[i] = Reply(Prompt(chunks[i])))

\* C8 witness: the batch has returned although a chunk failed, and a
\* sibling that was still running at the failure returned its answer.
C8_Witness ==
    /\ batch = "returned"
    /\ \E i \in Chunk, j \in Chunk :
          /\ Failed(i) /\ Succeeded(j) /\ Before(i, j)
          /\ results[i] = ErrorMarker(outcome[i][2])
          /\ results[j] = Reply(Prompt(chunks[j]))

\* C9: provided every call settles, the batch eventually returns, every
\* chunk having been admitted by the semaphore (its prompt sent) and done.
C9_BatchReturns ==
    <>(/\ batch = "returned"
       /\ \A i \in Chunk : cpc[i] = "done" /\ sent[i] = Prompt(chunks[i]))

\* C9 witness: a batch of more chunks than permits has returned, one of its
\* calls having failed.
C9_Witness ==
    /\ batch = "returned"
    /\ Len(chunks) > max_concurrent
    /\ \E i \in Chunk : Failed(i)

\* C10: no capability call of the fan-out starts before the rate budget
\* reservation for that call has been granted.
C10_ReservedBeforeCall ==
    \A i \in Chunk : cpc[i] = "calling" => i \in reserved

(***************************************************************************)
(* Chunk planner: chunk_text                                               *)
(*                                                                         *)
(* A text is a sequence of characters. The characters at which             *)
(* str.splitlines ends a line are NL, CR, FF and those of OtherBreaks; "a" *)
(* is any character that is not one of them.                               *)
(***************************************************************************)
NL == "\n"
CR == "\r"
FF == "\f"

\* the other line boundaries of str.splitlines, named by their escapes: the
\* line tabulation, the file, group and record separators, the next line
\* and the line and paragraph separators
OtherBreaks == {"\\v", "\\x1c", "\\x1d", "\\x1e", "\\x85", "\\u2028", "\\u2029"}

\* the characters at which str.splitlines ends a line
LineBreaks == {NL, CR, FF} \cup OtherBreaks

Chars == {"a", NL, CR, FF}

RECURSIVE SeqsUpTo(_, _)
\* the sequences over S of length at most n
SeqsUpTo(S, n) ==
    IF n = 0 THEN {<<>>}
    ELSE LET shorter == SeqsUpTo(S, n - 1)
         IN  shorter \cup {Append(q, x) : q \in {r \in shorter : Len(r) = n - 1}, x \in S}

Texts == SeqsUpTo(Chars, MaxTextLen)

RECURSIVE SplitFrom(_, _, _, _)
\* str.splitlines from position k on: cur is the line being read, acc the
\* lines read; a line boundary ends a line, CR followed by NL being one
\* boundary, and the end of the text ends a line only when characters
\* follow the last boundary
SplitFrom(s, k, cur, acc) ==
    IF k > Len(s)
       THEN IF Len(s) = 0 \/ s[Len(s)] \in LineBreaks THEN acc ELSE Append(acc, cur)
       ELSE IF s[k] \in LineBreaks
               THEN LET crlf == s[k] = CR /\ k < Len(s) /\ s[k + 1] = NL
                    IN  SplitFrom(s, IF crlf THEN k + 2 ELSE k + 1, <<>>, Append(acc, cur))
               ELSE SplitFrom(s, k + 1, Append(cur, s[k]), acc)

\* text.splitlines()
SplitLines(s) == SplitFrom(s, 1, <<>>, <<>>)

RECURSIVE Join(_)
\* "\n".join(lines)
Join(lines) ==
    IF lines = <<>> THEN <<>>
    ELSE IF Len(lines) = 1 THEN lines[1]
    ELSE lines[1] \o <<NL>> \o Join(Tail(lines))

RECURSIVE ChunkLoop(_, _, _, _, _, _)
\* the loop of chunk_text over lines[k..], lines 22-27, and lines 28-30
\* after it
ChunkLoop(lines, k, out, current, current_len, max) ==
    IF k > Len(lines)
       THEN IF current # <<>> THEN Append(out, Join(current)) ELSE out
       ELSE LET line == lines[k]
                flush == current_len + Len(line) > max /\ current # <<>>
                out1 == IF flush THEN Append(out, Join(current)) ELSE out
                current1 == IF flush THEN <<>> ELSE current
                len1 == IF flush THEN 0 ELSE current_len
            IN  ChunkLoop(lines, k + 1, out1, Append(current1, line),
                          len1 + Len(line) + 1, max)

\* chunk_text(text, max_chars)
chunk_text(t, max) == ChunkLoop(SplitLines(t), 1, <<>>, <<>>, 0, max)

\* a caller hands chunk_text a text and a size
InitChunkText ==
    /\ InitLimiter
    /\ InitNoBatch
    /\ text \in Texts
    /\ max_chars \in 0..MaxChars
    /\ text_chunks = <<>>
    /\ tpc = "start"
    /\ InitNoCall
    /\ InitNoMerge
    /\ InitNoRefill
    /\ InitNoRun
    /\ InitNoScan
    /\ InitNoAgain

\* chunk_text runs and returns
ChunkTextReturns ==
    /\ tpc = "start"
    /\ text_chunks' = chunk_text(text, max_chars)
    /\ tpc' = "done"
    /\ UNCHANGED <<text, max_chars>>
    /\ UNCHANGED <<bucketVars, windowVars, fanVars, callVars, mergeVars, refillVars, runVars, scanVars, againVars>>

NextChunkText == ChunkTextReturns

SpecChunkText == InitChunkText /\ [][NextChunkText]_vars

(***************************************************************************)
(* Claims about the chunk planner                                          *)
(***************************************************************************)
RECURSIVE ConcatLines(_)
\* the lines of the chunks, one chunk after the other
ConcatLines(cs) ==
    IF cs = <<>> THEN <<>> ELSE SplitLines(Head(cs)) \o ConcatLines(Tail(cs))

\* C11: the lines of the chunks returned by chunk_text, taken in order, are
\* exactly the lines of the input text, empty lines included.
C11_Lossless ==
    tpc = "done" => ConcatLines(text_chunks) = SplitLines(text)

(***************************************************************************)
(* One logical capability call: call_groq_with_retry                       *)
(***************************************************************************)
\* the prompts of the logical calls observed on their own
CallPrompts == {Prompt(ChunkText(i)) : i \in 1..NumChunks}

\* line 121: 2 ** (i + 1)
BaseDelay(i) == 2 ^ (i + 1)

\* line 121: random.uniform(0, 1), its two ends
Jitters == {0, 1}

\* line 122: "429" in str(e)
RateLimited(e) == e = "429"

\* line 122: wait if "429" not in str(e) else wait + 5
Penalty(e) == IF RateLimited(e) THEN 5 ELSE 0

\* bug: one attempt more before giving up
LastAttemptLate(i) == i = retries

\* line 120: i == retries - 1
LastAttempt(i) == i = retries - 1

\* what asyncio.sleep is called with on line 122
Duration(w) == w.base + w.jitter + w.penalty

\* call_groq_with_retry(prompt) is called: the loop starts with i = 0 and
\* call_groq is invoked (line 118)
CallStart(p) ==
    /\ callPc = "idle"
    /\ callPc' = "calling"
    /\ callPrompt' = p
    /\ callI' = 0
    /\ callTries' = 1
    /\ callWait' = NoWait
    /\ callErr' = NoError
    /\ callExc' = NoError
    /\ callRet' = NoReply
    /\ calls' = calls + 1

\* line 118: call_groq answers and its answer is returned
CallSucceeds ==
    /\ callPc = "calling"
    /\ callPc' = "returned"
    /\ callRet' = Reply(callPrompt)
    /\ UNCHANGED <<callPrompt, callI, callTries, callWait, callErr, callExc, calls>>

\* lines 119-122: call_groq raises e; the last attempt re-raises it, an
\* earlier one starts its backoff sleep, j being the random part
CallFails(e, j) ==
    /\ callPc = "calling"
    /\ callErr' = e
    /\ IF LastAttempt(callI)
          THEN /\ callPc' = "raised"
               /\ callExc' = e
               /\ UNCHANGED callWait
          ELSE /\ callPc' = "sleeping"
               /\ callWait' = [base |-> BaseDelay(callI), jitter |-> j,
                               penalty |-> Penalty(e)]
               /\ UNCHANGED callExc
    /\ UNCHANGED <<callPrompt, callI, callTries, callRet, calls>>

\* line 122 is over: the next round of the loop invokes call_groq again
CallRetry ==
    /\ callPc = "sleeping"
    /\ callPc' = "calling"
    /\ callI' = callI + 1
    /\ callTries' = callTries + 1
    /\ UNCHANGED <<callPrompt, callWait, callErr, callExc, callRet, calls>>

\* a logical call on its own
InitCall ==
    /\ InitLimiter
    /\ InitNoBatch
    /\ InitNoText
    /\ InitNoCall
    /\ InitNoMerge
    /\ InitNoRefill
    /\ InitNoRun
    /\ InitNoScan
    /\ InitNoAgain

NextCall ==
    \/ \E p \in CallPrompts :
          CallStart(p) /\ UNCHANGED <<bucketVars, windowVars, fanVars, textVars, mergeVars, refillVars, runVars, scanVars, againVars>>
    \/ CallSucceeds /\ UNCHANGED <<bucketVars, windowVars, fanVars, textVars, mergeVars, refillVars, runVars, scanVars, againVars>>
    \/ \E e \in Errors, j \in Jitters :
          CallFails(e, j) /\ UNCHANGED <<bucketVars, windowVars, fanVars, textVars, mergeVars, refillVars, runVars, scanVars, againVars>>
    \/ CallRetry /\ UNCHANGED <<bucketVars, windowVars, fanVars, textVars, mergeVars, refillVars, runVars, scanVars, againVars>>

SpecCall == InitCall /\ [][NextCall]_vars

(***************************************************************************)
(* Claims about one logical call                                           *)
(***************************************************************************)
\* C12: a logical call invokes the capability at most 5 times; it stops at
\* the first success and returns that response; between two consecutive
\* attempts it sleeps a base delay of 2, 4, 8, 16 seconds, doubling per
\* attempt, plus the random part, plus 5 seconds when the failure is a
\* rate-limit error; after the 5th failed attempt it makes no further
\* attempt and raises the last error.
C12_BoundedRetry ==
    /\ [](callTries <= 5)
    /\ [](callPc = "returned" => callRet = Reply(callPrompt))
    /\ [](callPc = "raised" => callTries = 5 /\ callExc = callErr)
    /\ [][/\ callPc \in {"returned", "raised"} => callTries' = callTries
          /\ callTries' # callTries /\ callTries >= 1 =>
                /\ callTries' = callTries + 1
                /\ callPc = "sleeping"
                /\ callErr # NoError
                /\ callWait.base = 2 ^ callTries
                /\ Duration(callWait) >= callWait.base
                /\ Duration(callWait) - callWait.base - callWait.jitter
                      = (IF callErr = "429" THEN 5 ELSE 0)
          /\ callPc = "calling" /\ callPc' = "sleeping" =>
                callWait'.base = IF callWait = NoWait THEN 2 ELSE 2 * callWait.base
          /\ callPc = "calling" /\ callPc' \notin {"calling", "returned"} =>
                callErr' \in Errors]_vars

\* C12 witness: the call has raised the rate-limit error of its 5th attempt,
\* having slept 16 seconds plus the penalty before it.
C12_Witness ==
    /\ callPc = "raised"
    /\ callTries = 5
    /\ callExc = "429"
    /\ callWait.base = 16
    /\ callWait.penalty = 5

(***************************************************************************)
(* Gap analyzer and refiller: the JSON values                              *)
(*                                                                         *)
(* A JSON value is a record of one shape: t is its type, "none", "str",    *)
(* "list" or "dict"; s is the text of a string, l the items of a list, d   *)
(* the mapping of a dictionary, a function from its keys to JSON values.   *)
(***************************************************************************)
None == [t |-> "none", s |-> "", l |-> <<>>, d |-> <<>>]
Str(x) == [t |-> "str", s |-> x, l |-> <<>>, d |-> <<>>]
List(q) == [t |-> "list", s |-> "", l |-> q, d |-> <<>>]
Dict(f) == [t |-> "dict", s |-> "", l |-> <<>>, d |-> f]

\* isinstance(v, dict)
IsDict(v) == v.t = "dict"

\* gap_filler.py, line 63: the strings of EMPTY_INDICATORS
EMPTY_INDICATORS ==
    {"", "not mentioned", "n/a", "not specified", "not available", "tbd"}

\* value.lower().strip(), on the strings of the model
LowerStrip(x) ==
    CASE x = "Not mentioned" -> "not mentioned"
      [] x = " N/A " -> "n/a"
      [] x = "TBD" -> "tbd"
      [] x = "" -> ""
      [] x = "2024-01-01" -> "2024-01-01"
      [] x = "2024-02-01" -> "2024-02-01"
      [] x = "2024-01-01; 2024-01-02" -> "2024-01-01; 2024-01-02"
      [] x = "{\"bid_end\": \"2024-02-01\"}" -> "{\"bid_end\": \"2024-02-01\"}"
      [] x = "Turnover: 25 Lakh | Experience: 3 Year(s)" ->
            "turnover: 25 lakh | experience: 3 year(s)"
      [] x = "AB/2024/17" -> "ab/2024/17"
      [] x = "25 Lakh" -> "25 lakh"
      [] x = "3 Years" -> "3 years"
      [] x = "Yes, for MSEs" -> "yes, for mses"
      [] x = "Indian firms" -> "indian firms"
      [] x = "Blacklisted firms" -> "blacklisted firms"
      [] x = "x" -> "x"

\* line 157: value in EMPTY_INDICATORS, the list holding None as well; the
\* comparison is ==, so a string is compared as it is and no list or
\* dictionary is equal to a member
InEmptyIndicators(v) ==
    v.t = "none" \/ (v.t = "str" /\ v.s \in EMPTY_INDICATORS)

\* bug: the result starts empty
dict_copy_empty(b) == <<>>

\* line 153: base.copy()
dict_copy(b) == b

RECURSIVE deep_merge(_, _)
\* _deep_merge(base, updates), lines 153-159, on the mappings b and u
deep_merge(b, u) ==
    LET result == dict_copy(b)
        Recurse(k) == IsDict(u[k]) /\ k \in DOMAIN result /\ IsDict(result[k])
        written == {k \in DOMAIN u : ~Recurse(k) /\ ~InEmptyIndicators(u[k])}
    IN  [k \in (DOMAIN result) \cup written |->
            IF k \in DOMAIN u /\ Recurse(k)
               THEN Dict(deep_merge(result[k].d, u[k].d))
               ELSE IF k \in written THEN u[k] ELSE result[k]]

(***************************************************************************)
(* The records of the model: a section key_dates with the fields bid_start *)
(* and bid_end, and the top-level field executive_summary.                 *)
(***************************************************************************)
Leaves ==
    {None, Str(""), Str("Not mentioned"), Str("2024-01-01"), Str("2024-02-01"),
     List(<<>>)}

SummaryLeaves == {None, Str("Not mentioned"), Str("2024-01-01")}

\* the mappings with keys among K and values in V
Mappings(K, V) == UNION {[D -> V] : D \in SUBSET K}

Sections == {Dict(f) : f \in Mappings({"bid_start", "bid_end"}, Leaves)}

\* the dictionaries handed to _deep_merge and find_missing_fields: what
\* json.loads can return for an answer of the capability
Records ==
    {[k \in D |-> IF k = "key_dates" THEN kd ELSE es] :
        D \in SUBSET {"key_dates", "executive_summary"},
        kd \in Leaves \cup Sections, es \in SummaryLeaves}

\* a caller hands _deep_merge two dictionaries
InitMerge ==
    /\ InitLimiter
    /\ InitNoBatch
    /\ InitNoText
    /\ InitNoCall
    /\ base \in Records
    /\ updates \in Records
    /\ merged = <<>>
    /\ mpc = "start"
    /\ InitNoRefill
    /\ InitNoRun
    /\ InitNoScan
    /\ InitNoAgain

\* _deep_merge runs and returns
MergeReturns ==
    /\ mpc = "start"
    /\ merged' = deep_merge(base, updates)
    /\ mpc' = "done"
    /\ UNCHANGED <<base, updates>>
    /\ UNCHANGED <<bucketVars, windowVars, fanVars, textVars, callVars, refillVars, runVars, scanVars, againVars>>

NextMerge == MergeReturns

SpecMerge == InitMerge /\ [][NextMerge]_vars

(***************************************************************************)
(* Claims about deepMerge                                                  *)
(***************************************************************************)
\* empty in the sense of the gap scan: None, an empty collection, or a
\* string that is a placeholder token once lowered and trimmed
Empty(v) ==
    \/ v.t = "none"
    \/ v.t = "list" /\ v.l = <<>>
    \/ v.t = "dict" /\ DOMAIN v.d = {}
    \/ v.t = "str" /\ LowerStrip(v.s) \in EMPTY_INDICATORS

\* the paths of the values of mapping f, one or two keys long
Paths(f) ==
    {<<k>> : k \in DOMAIN f}
        \cup UNION {{<<k, j>> : j \in DOMAIN f[k].d} : k \in {x \in DOMAIN f : IsDict(f[x])}}

\* the value of mapping f at path p
At(f, p) == IF Len(p) = 1 THEN f[p[1]] ELSE f[p[1]].d[p[2]]

\* the fields of mapping f: the paths of its values that are not maps
Fields(f) == {p \in Paths(f) : ~IsDict(At(f, p))}

\* C17: no non-empty base leaf is replaced by an empty update leaf, empty
\* as in the gap scan (None, empty collection, placeholder string whatever
\* its case and surrounding blanks).
C17_NoEmptyOverwrite ==
    mpc = "done" =>
        \A p \in Fields(base) \cap Paths(updates) :
            (~Empty(At(base, p)) /\ Empty(At(updates, p))) =>
                (p \in Paths(merged) /\ At(merged, p) = At(base, p))

\* updates holds a value at path p of base, or a value that is not a map
\* at the section of p
Named(u, p) ==
    \/ p \in Paths(u)
    \/ Len(p) = 2 /\ <<p[1]>> \in Paths(u) /\ ~IsDict(At(u, <<p[1]>>))

\* the update of scenario C: {"key_dates": {"bid_end": "2024-02-01"}}
OnlyBidEnd == [k \in {"key_dates"} |-> Dict([j \in {"bid_end"} |-> Str("2024-02-01")])]

\* C18 as claimed: every base field whose path does not occur in updates
\* is left as it was; merging {} returns base; merging an update that names
\* only key_dates.bid_end sets it and leaves the rest.
C18_FrameAsClaimed ==
    mpc = "done" =>
        /\ \A p \in Fields(base) \ Paths(updates) :
              p \in Paths(merged) /\ At(merged, p) = At(base, p)
        /\ (DOMAIN updates = {} => merged = base)

\* C18 amended: every base field is left as it was unless updates holds a
\* value at its path or a value that is not a map at its section; merging
\* {} returns base; merging {"key_dates": {"bid_end": "2024-02-01"}} into a
\* record with a key_dates section sets bid_end and leaves bid_start and
\* every other field as it was.
C18_Frame ==
    mpc = "done" =>
        /\ \A p \in Fields(base) :
              ~Named(updates, p) => (p \in Paths(merged) /\ At(merged, p) = At(base, p))
        /\ (DOMAIN updates = {} => merged = base)
        /\ (/\ updates = OnlyBidEnd
            /\ "key_dates" \in DOMAIN base
            /\ IsDict(base["key_dates"])) =>
               /\ DOMAIN merged = DOMAIN base
               /\ \A k \in DOMAIN base \ {"key_dates"} : merged[k] = base[k]
               /\ IsDict(merged["key_dates"])
               /\ DOMAIN merged["key_dates"].d = DOMAIN base["key_dates"].d \cup {"bid_end"}
               /\ merged["key_dates"].d["bid_end"] = Str("2024-02-01")
               /\ \A j \in DOMAIN base["key_dates"].d \ {"bid_end"} :
                     merged["key_dates"].d[j] = base["key_dates"].d[j]

\* C18 witness: scenario C: bid_end was empty and bid_start present, the
\* update names only bid_end, and the merged record holds both.
C18_Witness ==
    /\ mpc = "done"
    /\ updates = OnlyBidEnd
    /\ "key_dates" \in DOMAIN base /\ IsDict(base["key_dates"])
    /\ DOMAIN base["key_dates"].d = {"bid_start", "bid_end"}
    /\ base["key_dates"].d["bid_end"] = Str("")
    /\ base["key_dates"].d["bid_start"] = Str("2024-01-01")
    /\ "executive_summary" \in DOMAIN base
    /\ merged["key_dates"].d["bid_start"] = Str("2024-01-01")
    /\ merged["key_dates"].d["bid_end"] = Str("2024-02-01")
    /\ merged["executive_summary"] = base["executive_summary"]

(***************************************************************************)
(* Gap analyzer and refiller: find_missing_fields and fill_missing_fields   *)
(***************************************************************************)
\* gap_filler.py, lines 14-61
CRITICAL_FIELDS ==
    [key_dates |->
        {"bid_end", "bid_start", "publication_date", "bid_validity",
         "pre_bid_meeting_date", "pre_bid_meeting_location",
         "technical_bid_opening", "financial_bid_opening",
         "contract_start", "project_duration",
         "date_and_time_of_issue", "due_date_and_time_of_submission"},
     financial_requirements |->
        {"emd", "tender_fee", "performance_security",
         "payment_terms", "retention_money", "epbg_details"},
     tender_meta |->
        {"tender_title", "portal", "department",
         "issuing_authority", "tender_id", "country", "state",
         "organization_address", "tender_document_date",
         "submission_instructions", "boq_title", "type_of_bid",
         "item_category", "total_quantity"},
     eligibility_snapshot |->
        {"turnover_requirement", "experience_required",
         "who_can_bid", "consortium_or_jv_allowed",
         "international_bidders_allowed",
         "bidder_technical_infrastructure",
         "oem_turnover_requirement", "mse_relaxation", "startup_relaxation",
         "detailed_pre_qualification_criteria"},
     scope_of_work |->
        {"description", "deliverables", "location",
         "duration", "technical_specifications"},
     legal_and_risk_clauses |->
        {"rejection_of_bid", "splitting_of_work", "liquidated_damages",
         "blacklisting_clause", "warranty_period"},
     additional_important_information |->
        {"detailed_evaluation_scoring_criteria",
         "evaluation_method", "bid_to_ra_enabled",
         "technical_clarification_time", "buyer_added_atc"},
     documents_required |->
        {"documents_required", "online_submission_documents",
         "offline_submission_documents"},
     root |->
        {"executive_summary", "pre_qualification_requirement"}]

\* _is_critical_field, line 101
is_critical_field(section, field) ==
    section \in DOMAIN CRITICAL_FIELDS /\ field \in CRITICAL_FIELDS[section]

\* schema.py, lines 298-313: the fields of TenderSummary in the order of
\* the class, which is the order of the keys of its dump
RootFields ==
    <<"tender_meta", "scope_of_work", "key_dates", "eligibility_snapshot",
      "financial_requirements", "documents_required",
      "online_submission_documents", "offline_submission_documents",
      "legal_and_risk_clauses", "vendor_decision_hint",
      "additional_important_information", "pre_qualification_requirement",
      "executive_summary", "external_links">>

\* schema.py, lines 147-295: the fields of the section models, in the order
\* of each class
SectionFields ==
    [tender_meta |->
        <<"tender_id", "tender_title", "portal", "department",
          "issuing_authority", "country", "state", "funded_project",
          "funding_agency", "organization_address", "organization_telephone",
          "organization_email", "organization_fax", "tender_document_date",
          "submission_instructions", "type_of_bid", "item_category",
          "total_quantity", "boq_title">>,
     scope_of_work |->
        <<"description", "deliverables", "quantity",
          "technical_specifications", "location", "duration">>,
     key_dates |->
        <<"publication_date", "bid_start", "bid_end", "pre_bid_meeting_date",
          "pre_bid_meeting_location", "technical_bid_opening",
          "financial_bid_opening", "contract_start", "bid_validity",
          "project_duration", "date_and_time_of_issue",
          "due_date_and_time_of_submission">>,
     eligibility_snapshot |->
        <<"who_can_bid", "experience_required", "turnover_requirement",
          "minimum_years_in_business", "local_content_requirement",
          "msme_startup_exemption", "consortium_or_jv_allowed",
          "international_bidders_allowed", "specific_licenses_required",
          "past_performance_requirement", "bidder_technical_infrastructure",
          "oem_turnover_requirement", "mse_relaxation", "startup_relaxation",
          "detailed_pre_qualification_criteria">>,
     financial_requirements |->
        <<"emd", "emd_exemption", "tender_fee", "performance_security",
          "retention_money", "epbg_details", "payment_terms",
          "advance_payment", "mobilization_advance">>,
     legal_and_risk_clauses |->
        <<"blacklisting_clause", "arbitration_clause", "mediation_clause",
          "liquidated_damages", "force_majeure", "termination_clause",
          "warranty_period", "special_restrictions", "rejection_of_bid",
          "splitting_of_work">>,
     vendor_decision_hint |->
        <<"eligible_if", "not_eligible_if", "key_risks",
          "competitive_advantage_if">>,
     additional_important_information |->
        <<"evaluation_criteria", "selection_method", "price_preference",
          "special_conditions", "contact_information", "clarification_process",
          "detailed_evaluation_scoring_criteria", "buyer_added_atc",
          "technical_clarification_time", "evaluation_method",
          "bid_to_ra_enabled", "other_critical_info">>]

RECURSIVE FieldsFrom(_)
\* the fields of the sections ks, one section after the other
FieldsFrom(ks) ==
    IF ks = <<>> THEN <<>>
    ELSE (IF Head(ks) \in DOMAIN SectionFields THEN SectionFields[Head(ks)] ELSE <<>>)
         \o FieldsFrom(Tail(ks))

\* the order in which a dictionary of the model yields its keys: the order
\* of the dump, the keys of the record and then those of each section
KeyOrder == RootFields \o FieldsFrom(RootFields)

\* data.items(): the keys of mapping f in order
KeysOf(f) == SelectSeq(KeyOrder, LAMBDA k : k \in DOMAIN f)

\* line 83: not value or all(not item for item in value), on a list of strings
ListAllFalsy(q) == \A i \in 1..Len(q) : q[i] = ""

RECURSIVE find_missing_fields(_, _, _)
\* the body of the loop of find_missing_fields, lines 79-96, for one key:
\* what it adds to missing
ScanKey(data, key, parent_key, path) ==
    IF IsDict(data[key])
       THEN find_missing_fields(data[key].d, key, Append(path, key))
    ELSE IF \/ data[key].t = "list" /\ ListAllFalsy(data[key].l)
            \/ data[key].t = "none"
            \/ data[key].t = "str" /\ LowerStrip(data[key].s) \in EMPTY_INDICATORS
       THEN << [section |-> IF parent_key = "" THEN "root" ELSE parent_key,
                field |-> key,
                path |-> Append(path, key),
                is_critical |-> is_critical_field(parent_key, key)] >>
       ELSE <<>>

RECURSIVE ScanKeys(_, _, _, _, _, _)
\* the loop of find_missing_fields, lines 78-96, over the keys ks[lo], ...,
\* ks[hi] of data: what the first half of them adds and then what the
\* second half adds
ScanKeys(data, ks, lo, hi, parent_key, path) ==
    IF lo > hi THEN <<>>
    ELSE IF lo = hi
       THEN CHOOSE added \in {ScanKey(data, key, parent_key, path) : key \in {ks[lo]}} : TRUE
    ELSE ScanKeys(data, ks, lo, (lo + hi) \div 2, parent_key, path)
         \o ScanKeys(data, ks, (lo + hi) \div 2 + 1, hi, parent_key, path)

\* find_missing_fields(data, parent_key, path), lines 65-97
find_missing_fields(data, parent_key, path) ==
    CHOOSE missing \in {ScanKeys(data, ks, 1, Len(ks), parent_key, path) :
                            ks \in {KeysOf(data)}} : TRUE

\* [m for m in missing if m["is_critical"]], lines 116 and 171
CriticalOf(missing) == SelectSeq(missing, LAMBDA m : m.is_critical)

\* get_missing_field_summary(data)["critical_missing"], line 171
critical_missing(data) == Len(CriticalOf(find_missing_fields(data, "", <<>>)))

\* bug: the refill call is made whether or not there is a critical gap
NoCriticalNever(c) == FALSE

\* line 118: not critical
NoCritical(c) == c = <<>>

\* the source documents, each cut to its first 15000 characters (line 131)
Documents == <<"content[:15000]">>

\* the prompt of _execute_gap_extraction, lines 130-147
GapPrompt(crit) ==
    <<"MISSING FIELDS", [i \in 1..Len(crit) |-> crit[i].path], "DOCUMENT CONTEXT", Documents>>

\* the caller of a logical call has its result: the call's frame is gone
CallReset ==
    /\ callPc' = "idle"
    /\ callPrompt' = NoPrompt
    /\ callI' = 0
    /\ callTries' = 0
    /\ callWait' = NoWait
    /\ callErr' = NoError
    /\ callExc' = NoError
    /\ callRet' = NoReply
    /\ UNCHANGED calls

\* fill_missing_fields, lines 115-122: scan, return the draft when there is
\* no critical gap, else start the one extraction call (line 148)
RefillStart ==
    /\ fpc = "start"
    /\ \E crit \in {CriticalOf(find_missing_fields(draft, "", <<>>))} :
          /\ critical' = crit
          /\ IF NoCritical(crit)
                THEN /\ fpc' = "returned"
                     /\ filled' = draft
                     /\ UNCHANGED callVars
                ELSE /\ fpc' = "calling"
                     /\ CallStart(GapPrompt(crit))
                     /\ UNCHANGED filled
    /\ UNCHANGED <<draft, answer, fillErr>>

\* lines 149 and 123: the answer parses to the dictionary u, which is
\* merged into the draft
RefillParsed(u) ==
    /\ fpc = "calling"
    /\ callPc = "returned"
    /\ answer' = [ok |-> TRUE, d |-> u]
    /\ filled' = deep_merge(draft, u)
    /\ fpc' = "returned"
    /\ CallReset
    /\ UNCHANGED <<draft, critical, fillErr>>

\* lines 124-126: the answer does not parse (validate_json_response raises
\* ValueError) or parses to something that is not a dictionary (_deep_merge
\* raises AttributeError); the exception is logged and the draft returned
RefillBadAnswer(err) ==
    /\ fpc = "calling"
    /\ callPc = "returned"
    /\ fillErr' = err
    /\ filled' = draft
    /\ fpc' = "returned"
    /\ CallReset
    /\ UNCHANGED <<draft, critical, answer>>

\* bug: after a failed extraction call the refill starts another one
RefillCallRaisedAgain ==
    /\ fpc = "calling"
    /\ callPc = "raised"
    /\ calls < 4
    /\ fillErr' = callExc
    /\ callPc' = "calling"
    /\ callI' = 0
    /\ callTries' = 1
    /\ callWait' = NoWait
    /\ callErr' = NoError
    /\ callExc' = NoError
    /\ callRet' = NoReply
    /\ calls' = calls + 1
    /\ UNCHANGED <<callPrompt, draft, critical, answer, filled, fpc>>

\* lines 124-126: the extraction call raised after its last attempt; the
\* exception is logged and the draft returned
RefillCallRaised ==
    /\ fpc = "calling"
    /\ callPc = "raised"
    /\ fillErr' = callExc
    /\ filled' = draft
    /\ fpc' = "returned"
    /\ CallReset
    /\ UNCHANGED <<draft, critical, answer>>

AnswerErrors == {"ValueError", "AttributeError"}

\* a caller hands fill_missing_fields a record
InitRefill ==
    /\ InitLimiter
    /\ InitNoBatch
    /\ InitNoText
    /\ InitNoCall
    /\ InitNoMerge
    /\ draft \in Records
    /\ critical = <<>>
    /\ answer = NoAnswer
    /\ filled = <<>>
    /\ fillErr = NoError
    /\ fpc = "start"
    /\ InitNoRun
    /\ InitNoScan
    /\ InitNoAgain

NextRefill ==
    \/ RefillStart /\ UNCHANGED <<bucketVars, windowVars, fanVars, textVars, mergeVars, runVars, scanVars, againVars>>
    \/ \E u \in Records :
          RefillParsed(u) /\ UNCHANGED <<bucketVars, windowVars, fanVars, textVars, mergeVars, runVars, scanVars, againVars>>
    \/ \E err \in AnswerErrors :
          RefillBadAnswer(err) /\ UNCHANGED <<bucketVars, windowVars, fanVars, textVars, mergeVars, runVars, scanVars, againVars>>
    \/ RefillCallRaised /\ UNCHANGED <<bucketVars, windowVars, fanVars, textVars, mergeVars, runVars, scanVars, againVars>>
    \/ CallSucceeds /\ UNCHANGED <<bucketVars, windowVars, fanVars, textVars, mergeVars, refillVars, runVars, scanVars, againVars>>
    \/ \E e \in Errors, j \in Jitters :
          CallFails(e, j) /\ UNCHANGED <<bucketVars, windowVars, fanVars, textVars, mergeVars, refillVars, runVars, scanVars, againVars>>
    \/ CallRetry /\ UNCHANGED <<bucketVars, windowVars, fanVars, textVars, mergeVars, refillVars, runVars, scanVars, againVars>>

SpecRefill == InitRefill /\ [][NextRefill]_vars

(***************************************************************************)
(* Claims about refill                                                     *)
(***************************************************************************)
\* C19: refill of a record with no critical gap returns the record as it
\* is and makes no extraction call; refill of a record with at least one
\* critical gap makes exactly one logical extraction call, however many the
\* gaps, and returns the deepMerge of the record with the call's result.
C19_RefillOnce ==
    /\ calls <= 1
    /\ fpc = "calling" => calls = 1 /\ critical # <<>>
    /\ fpc = "returned" =>
          /\ critical_missing(draft) = 0 =>
                filled = draft /\ calls = 0 /\ answer = NoAnswer
          /\ critical_missing(draft) > 0 =>
                /\ calls = 1
                /\ answer.ok => filled = deep_merge(draft, answer.d)
                /\ ~answer.ok => filled = draft

\* C19 witness: a record with two critical gaps has been refilled with one
\* call, whose answer filled them both.
C19_Witness ==
    /\ fpc = "returned"
    /\ Len(critical) = 2
    /\ calls = 1
    /\ answer.ok
    /\ filled # draft
    /\ critical_missing(filled) = 0

\* C20: whatever the record and the answer to the refill call, the gap scan
\* finds no more critical gaps after refill than before.
C20_GapsNotIncreased ==
    fpc = "returned" => critical_missing(filled) <= critical_missing(draft)


(***************************************************************************)
(* Part 6: the pipeline orchestrator, process_tender_multi_file.           *)
(*                                                                         *)
(* A run starts with the decoded document.  The document is kept by what   *)
(* the run reads of it: its length in characters and the portal indicator  *)
(* phrases that occur in it.  A run is at one stage at a time; trace holds  *)
(* the stages it started and completed, in order.                          *)
(***************************************************************************)
S(name) == <<"start", name>>
E(name) == <<"end", name>>

\* groq_client.py, estimate_tokens: len(text) // 4
estimate_tokens(chars) == chars \div 4

SINGLE_PASS_TOKEN_LIMIT == 40000
DEFAULT_CONTEXT_BUDGET == 15000

\* rule_parser.py, lines 85-112: the indicator phrases and their weights; the
\* two Devanagari phrases of lines 90 and 91 are written in Latin letters
gem_indicators ==
    << <<"Government e-Marketplace", 2>>, <<"GeM Portal", 2>>, <<"gem.gov.in", 3>>,
       <<"GEM/202", 3>>, <<"bidar ka nyunatam", 2>>, <<"mool upkaran nirmata", 2>>,
       <<"Buyer Added Terms", 2>>, <<"ePBG", 2>>,
       <<"Pre-Qualification Requirement", 1>>, <<"Document required from seller", 2>>,
       <<"Item Category", 1>>, <<"Total Quantity", 1>> >>

cppp_indicators ==
    << <<"Central Public Procurement Portal", 3>>, <<"CPPP", 3>>, <<"eprocure.gov.in", 3>>,
       <<"Envelope-1", 2>>, <<"Envelope-2", 2>>, <<"Date & time of issue", 2>>,
       <<"Due Date & time of Submission", 2>>, <<"Online Submission", 1>>,
       <<"Offline Submission", 1>>, <<"NIT No", 2>>, <<"Technical Proposal", 1>> >>

\* lines 116-122: the sum of the weights of the indicators found in the text
RECURSIVE Score(_, _, _)
Score(indicators, found, k) ==
    IF k > Len(indicators) THEN 0
    ELSE (IF indicators[k][1] \in found THEN indicators[k][2] ELSE 0)
         + Score(indicators, found, k + 1)

\* bug: on a tie the label is GeM
detect_portal_tie(found) ==
    LET gem_score == Score(gem_indicators, found, 1)
        cppp_score == Score(cppp_indicators, found, 1)
    IN  IF gem_score >= cppp_score /\ gem_score >= 2 THEN "GeM"
        ELSE IF cppp_score > gem_score /\ cppp_score >= 2 THEN "CPPP"
        ELSE "Generic"

\* rule_parser.py, detect_portal, lines 72-131; found is the set of the
\* indicator phrases that occur in the text, letter case aside
detect_portal(found) ==
    LET gem_score == Score(gem_indicators, found, 1)
        cppp_score == Score(cppp_indicators, found, 1)
    IN  IF gem_score > cppp_score /\ gem_score >= 2 THEN "GeM"
        ELSE IF cppp_score > gem_score /\ cppp_score >= 2 THEN "CPPP"
        ELSE "Generic"

\* sep.join(q), on a list of strings
RECURSIVE JoinStr(_, _)
JoinStr(q, sep) ==
    IF q = <<>> THEN ""
    ELSE IF Len(q) = 1 THEN q[1]
    ELSE q[1] \o sep \o JoinStr(Tail(q), sep)

(***************************************************************************)
(* The rule-based pre-extraction: rule_parser.py, gem_rules.py and         *)
(* cppp_rules.py.                                                          *)
(*                                                                         *)
(* The regular expressions search the text of the document.  A document    *)
(* carries, in rx, what the searches find in it: rx maps the name of a     *)
(* search to what it captures, and a search that finds nothing is not in   *)
(* the domain of rx.  A capture is the text of the group after .strip();   *)
(* the two tender-number captures that the code tests against the date     *)
(* pattern are kept as sequences of characters.  The fields extracted are  *)
(* JSON values: a string, a list of strings or a dictionary.               *)
(***************************************************************************)
\* the rupee sign U+20B9 of lines 178, 182 and 195 of rule_parser.py and 117
\* and 128 of gem_rules.py, written as json.dumps writes it
RUPEE == "\\u20b9"

\* rx has a capture of this search
Found(rx, k) == k \in DOMAIN rx

\* the capture of a search whose capture is a string, None being ""
Capture(rx, k) == IF Found(rx, k) THEN rx[k] ELSE ""

\* if v: of such a capture
Truthy(rx, k) == Capture(rx, k) # ""

\* {k: v} when the condition holds, else {}
Entry(cond, k, v) == IF cond THEN (k :> v) ELSE <<>>

\* dict.update: the keys of new over those of old
Updated(old, new) == new @@ old

\* the string of a sequence of characters
Text(q) == JoinStr(q, "")

Digits == {"0", "1", "2", "3", "4", "5", "6", "7", "8", "9"}
DateSeps == {"-", "/", "."}

\* re.match(r"^\d{1,2}[-/\.]\d{1,2}[-/\.]\d{2,4}$", tid), rule_parser.py line
\* 173 and cppp_rules.py line 29
IsDateOnly(q) ==
    \E a \in 1..2, b \in 1..2, c \in 2..4 :
        /\ Len(q) = a + b + c + 2
        /\ q[a + 1] \in DateSeps
        /\ q[a + b + 2] \in DateSeps
        /\ \A i \in (1..Len(q)) \ {a + 1, a + b + 2} : q[i] \in Digits

\* cppp_rules.py, extract_cppp_tender_id, lines 23-31
extract_cppp_tender_id(rx) ==
    IF Found(rx, "cppp_tender_id") /\ ~IsDateOnly(rx["cppp_tender_id"])
       THEN Text(rx["cppp_tender_id"]) ELSE ""

RECURSIVE Dedupe(_, _)
\* list(dict.fromkeys(q)): the first occurrence of each item, in order
Dedupe(q, seen) ==
    IF q = <<>> THEN <<>>
    ELSE IF Head(q) \in seen THEN Dedupe(Tail(q), seen)
    ELSE <<Head(q)>> \o Dedupe(Tail(q), seen \cup {Head(q)})

\* what extract_document_list returns on the part of the text a search of
\* extract_cppp_envelope_documents matched, [] when it matched nothing
DocumentList(rx, k) == IF Found(rx, k) THEN rx[k] ELSE <<>>

\* cppp_rules.py, extract_cppp_envelope_documents, lines 49-90: the two lists
\* are always there
extract_cppp_envelope_documents(rx) ==
    LET online == DocumentList(rx, "envelope_1_documents")
                  \o DocumentList(rx, "envelope_2_documents")
        offline == DocumentList(rx, "offline_documents")
    IN  [online_submission_documents |-> List(Dedupe(online, {})),
         offline_submission_documents |-> List(Dedupe(offline, {}))]

\* a dictionary a function of the rules returns whole, {} when no search of
\* the function finds anything
DictOf(rx, k) == IF Found(rx, k) THEN rx[k] ELSE <<>>

\* the keys of extract_cppp_bidder_infrastructure, in the order it sets them
InfrastructureKeys == <<"computer_system", "broadband", "dsc">>

\* cppp_rules.py, lines 227-231: " | ".join(f"{k}: {v}" for k, v in
\* infrastructure.items() if v)
InfrastructureText(inf) ==
    LET ks == SelectSeq(InfrastructureKeys, LAMBDA k : k \in DOMAIN inf /\ inf[k] # "")
    IN  JoinStr([i \in 1..Len(ks) |-> ks[i] \o ": " \o inf[ks[i]]], " | ")

\* cppp_rules.py, extract_cppp_fields, lines 201-244
extract_cppp_fields(rx) ==
    LET tender_id == extract_cppp_tender_id(rx)
        infrastructure == DictOf(rx, "extract_cppp_bidder_infrastructure")
        e1 == Entry(tender_id # "", "tender_id", Str(tender_id))
        e2 == Updated(e1, [k \in DOMAIN DictOf(rx, "extract_cppp_date_fields") |->
                               Str(rx["extract_cppp_date_fields"][k])])
        e3 == Updated(e2, extract_cppp_envelope_documents(rx))
        e4 == Updated(e3, Entry(Truthy(rx, "extract_cppp_multi_call_experience"),
                                "experience_required_multi_call",
                                Str(Capture(rx, "extract_cppp_multi_call_experience"))))
        e5 == Updated(e4, Entry(DOMAIN infrastructure # {},
                                "bidder_technical_infrastructure",
                                Str(InfrastructureText(infrastructure))))
        e6 == Updated(e5, Entry(Found(rx, "extract_cppp_right_to_reject"),
                                "rejection_of_bid", Str("Yes")))
    IN  Updated(e6, Entry(Found(rx, "extract_cppp_split_work"),
                          "splitting_of_work", Str("Yes")))

\* gem_rules.py, extract_gem_epbg_details, lines 74-95; None is ""
extract_gem_epbg_details(rx) ==
    LET parts == (IF Found(rx, "epbg_percentage")
                     THEN <<"Percentage: " \o Capture(rx, "epbg_percentage")>> ELSE <<>>)
                 \o (IF Found(rx, "epbg_duration")
                        THEN <<"Duration: " \o Capture(rx, "epbg_duration")>> ELSE <<>>)
    IN  JoinStr(parts, " | ")

\* the functions of gem_rules.py that return the capture of one search
GemSingles ==
    << <<"extract_gem_evaluation_method", "evaluation_method">>,
       <<"extract_gem_bid_to_ra", "bid_to_ra_enabled">>,
       <<"extract_gem_technical_clarification_time", "technical_clarification_time">>,
       <<"extract_gem_buyer_atc", "buyer_added_atc">> >>

\* gem_rules.py, extract_gem_fields, lines 265-305; the dictionary of
\* extract_gem_boq_info holds strings, that of
\* extract_gem_pre_qualification_table JSON values
extract_gem_fields(rx) ==
    LET epbg == extract_gem_epbg_details(rx)
        e1 == Entry(Truthy(rx, "extract_gem_tender_id"), "tender_id",
                    Str(Capture(rx, "extract_gem_tender_id")))
        e2 == Updated(e1, [k \in DOMAIN DictOf(rx, "extract_gem_boq_info") |->
                               Str(rx["extract_gem_boq_info"][k])])
        e3 == Updated(e2, Entry(epbg # "", "epbg_details", Str(epbg)))
        e4 == Updated(e3, DictOf(rx, "extract_gem_pre_qualification_table"))
        singles == {i \in 1..Len(GemSingles) : Truthy(rx, GemSingles[i][1])}
    IN  Updated(e4, [k \in {GemSingles[i][2] : i \in singles} |->
                        LET i == CHOOSE j \in singles : GemSingles[j][2] = k
                        IN  Str(rx[GemSingles[i][1]])])

\* rule_parser.py, extract_field, lines 39-55, None being ""
extract_field(rx, pattern_key) == Capture(rx, pattern_key)

\* lines 171-174: the tender number, by the GeM pattern or else the generic
\* one, unless it is a date
BaseTenderId(rx) ==
    IF extract_field(rx, "tender_id_gem") # "" THEN extract_field(rx, "tender_id_gem")
    ELSE IF Found(rx, "tender_id_generic") /\ rx["tender_id_generic"] # <<>>
            /\ ~IsDateOnly(rx["tender_id_generic"])
         THEN Text(rx["tender_id_generic"])
    ELSE ""

\* lines 176-182 and 189-195: the fields set from one search when the
\* portal's rules did not set them, with what is put before and after the
\* capture
BaseSingles ==
    << <<"emd", "emd_amount", RUPEE, "">>,
       <<"tender_fee", "tender_fee", RUPEE, "">>,
       <<"bid_start", "bid_start_date", "", "">>,
       <<"bid_end", "bid_end_date", "", "">>,
       <<"tech_opening", "tech_opening", "", "">>,
       <<"financial_opening", "financial_opening", "", "">>,
       <<"bid_validity", "bid_validity_period", "", " days">>,
       <<"turnover_requirement", "turnover", RUPEE, "">> >>

\* lines 197-201: " / ".join(filter(None, [...]))
ExperienceText(rx) ==
    LET exp == extract_field(rx, "experience_years")
        proj == extract_field(rx, "similar_projects")
    IN  JoinStr((IF exp # "" THEN <<exp \o " years">> ELSE <<>>)
                \o (IF proj # "" THEN <<proj \o " projects">> ELSE <<>>), " / ")

\* rule_parser.py, _extract_base_fields, lines 156-207: a field the portal's
\* rules have set is kept
extract_base_fields(rx, p, portal_specific) ==
    LET extracted == Updated("portal" :> Str(p), portal_specific)
        tid == BaseTenderId(rx)
        singles == {i \in 1..Len(BaseSingles) :
                       /\ BaseSingles[i][1] \notin DOMAIN extracted
                       /\ extract_field(rx, BaseSingles[i][2]) # ""}
        e1 == Entry("tender_id" \notin DOMAIN extracted /\ tid # "", "tender_id", Str(tid))
        e2 == [k \in {BaseSingles[i][1] : i \in singles} |->
                  LET i == CHOOSE j \in singles : BaseSingles[j][1] = k
                  IN  Str(BaseSingles[i][3] \o extract_field(rx, BaseSingles[i][2]) \o BaseSingles[i][4])]
        e3 == Entry("experience_required" \notin DOMAIN extracted /\ ExperienceText(rx) # "",
                    "experience_required", Str(ExperienceText(rx)))
        e4 == [k \in {x \in {"msme_exemption", "startup_exemption"} :
                         x \notin DOMAIN extracted /\ Found(rx, x)} |-> Str("Yes")]
    IN  extracted @@ e1 @@ e2 @@ e3 @@ e4

\* rule_parser.py, extract_structured_fields, lines 133-154: the routing is
\* by a detect_portal of its own
extract_structured_fields(d) ==
    LET p == detect_portal(d.found)
    IN  CASE p = "GeM" -> extract_base_fields(d.rx, p, extract_gem_fields(d.rx))
          [] p = "CPPP" -> extract_base_fields(d.rx, p, extract_cppp_fields(d.rx))
          [] OTHER -> extract_base_fields(d.rx, p, <<>>)

RECURSIVE SumOf(_, _)
\* the sum of f over the finite set D
SumOf(f, D) ==
    IF D = {} THEN 0
    ELSE LET x == CHOOSE y \in D : TRUE IN f[x] + SumOf(f, D \ {x})

RECURSIVE DumpsLen(_, _, _)
\* len(json.dumps(v)) when indent = 0 and len(json.dumps(v, indent=indent))
\* otherwise, for a value at nesting depth level; the strings of the model
\* hold no character that json.dumps escapes
DumpsLen(v, indent, level) ==
    LET open == IF indent = 0 THEN 0 ELSE 1 + indent * (level + 1)
        close == IF indent = 0 THEN 0 ELSE 1 + indent * level
        comma == IF indent = 0 THEN 2 ELSE 1
    IN  CASE v.t = "none" -> 4
          [] v.t = "str" -> Len(v.s) + 2
          [] v.t = "list" ->
                IF v.l = <<>> THEN 2
                ELSE 2 + close + (Len(v.l) - 1) * comma
                     + SumOf([i \in 1..Len(v.l) |-> open + Len(v.l[i]) + 2], 1..Len(v.l))
          [] v.t = "dict" ->
                IF DOMAIN v.d = {} THEN 2
                ELSE 2 + close + (Cardinality(DOMAIN v.d) - 1) * comma
                     + SumOf([k \in DOMAIN v.d |->
                                 open + Len(k) + 4 + DumpsLen(v.d[k], indent, level + 1)],
                             DOMAIN v.d)

\* rule_parser.py, extract_critical_sections, lines 209-230: the sections
\* found in the text, each cut to 5000 characters; the model keeps their
\* lengths, and every document of the model has these two
extract_critical_sections(d) == [eligibility |-> 5000, timeline |-> 300]

\* the documents of the model: the longest under the 0.9 * 15000 token margin
\* of the context budget and the shortest at it, the longest at the
\* single-pass ceiling and the shortest over it
DocLens ==
    {4 * ((DEFAULT_CONTEXT_BUDGET * 9) \div 10) - 1,
     4 * ((DEFAULT_CONTEXT_BUDGET * 9) \div 10),
     4 * SINGLE_PASS_TOKEN_LIMIT + 3,
     4 * SINGLE_PASS_TOKEN_LIMIT + 4}

\* the texts of the model by what the searches find in them: filler alone,
\* filler and "GeM Portal", and filler with "CPPP" and "Ref: AB/2024/17"
DocTexts ==
    {[found |-> {}, rx |-> <<>>],
     [found |-> {"GeM Portal"}, rx |-> <<>>],
     [found |-> {"CPPP"},
      rx |-> [cppp_tender_id |-> <<"A", "B", "/", "2", "0", "2", "4", "/", "1", "7">>,
              tender_id_generic |-> <<"A", "B", "/", "2", "0", "2", "4", "/", "1", "7">>]]}

Docs == {[len |-> n, found |-> x.found, rx |-> x.rx] : n \in DocLens, x \in DocTexts}

\* the pre-extracted data of the documents of the model
RuleData == {extract_structured_fields(d) : d \in Docs}

\* bug: a document at the ceiling goes to the hierarchical strategy
SinglePassBelow(t) == t < SINGLE_PASS_TOKEN_LIMIT

\* summarizer.py, line 123: tokens <= SINGLE_PASS_TOKEN_LIMIT
SinglePass(t) == t <= SINGLE_PASS_TOKEN_LIMIT

\* bug: a document at the margin still goes whole into the context
FitsBudgetAtMargin(t, budget) == t * 10 <= budget * 9

\* summarizer.py, line 67: estimate_tokens(full_text) < budget * 0.9
FitsBudget(t, budget) == t * 10 < budget * 9

\* line 66: the length of the header, "=== PRE-EXTRACTED DATA ===\n" and
\* json.dumps(rule_data, indent=2) and two line feeds
SmartHeaderChars(rd) == 27 + DumpsLen(Dict(rd), 2, 0) + 2

\* lines 72-78
section_map ==
    << <<"eligibility", "ELIGIBILITY CRITERIA", 30>>,
       <<"financial", "FINANCIAL REQUIREMENTS", 25>>,
       <<"timeline", "KEY DATES & TIMELINE", 15>>,
       <<"scope_of_work", "SCOPE OF WORK", 15>>,
       <<"terms_conditions", "TERMS & CONDITIONS", 15>> >>

\* line 71: the tokens left for the sections
Avail(rd, budget) == budget - estimate_tokens(SmartHeaderChars(rd)) - 500

\* lines 73-77: the weights as the doubles Python reads them, float.hex
\* 0x1.hhhhhhhhhhhhhp-e: the thirteen hexadecimal digits after the point
\* and the exponent; ratio in hundredths
RatioHex(ratio) ==
    CASE ratio = 30 -> [frac |-> <<3, 3, 3, 3, 3, 3, 3, 3, 3, 3, 3, 3, 3>>, exp |-> -2]
      [] ratio = 25 -> [frac |-> <<0, 0, 0, 0, 0, 0, 0, 0, 0, 0, 0, 0, 0>>, exp |-> -2]
      [] ratio = 15 -> [frac |-> <<3, 3, 3, 3, 3, 3, 3, 3, 3, 3, 3, 3, 3>>, exp |-> -3]

Pow2Table ==
    <<1, 2, 4, 8, 16, 32, 64, 128, 256, 512, 1024, 2048, 4096, 8192, 16384, 32768,
      65536, 131072, 262144, 524288, 1048576, 2097152, 4194304, 8388608,
      16777216, 33554432, 67108864, 134217728, 268435456, 536870912, 1073741824>>

Pow2(n) == Pow2Table[n + 1]

\* a double is its significand m, 53 bits with the lowest first, and the
\* exponent x of the lowest bit: the value is m * 2^x
DoubleOf(h) ==
    [m |-> [j \in 1..(4 * Len(h.frac) + 1) |->
               IF j = 4 * Len(h.frac) + 1 THEN 1
               ELSE (h.frac[Len(h.frac) - (j - 1) \div 4] \div Pow2((j - 1) % 4)) % 2],
     x |-> h.exp - 4 * Len(h.frac)]

\* the bits of a number in groups of twelve, each group as a number
BitAt(bits, j) == IF j <= Len(bits) THEN bits[j] ELSE 0

LimbsOf(bits) ==
    [i \in 1..((Len(bits) + 11) \div 12) |->
        BitAt(bits, 12 * i - 11) + 2 * BitAt(bits, 12 * i - 10)
        + 4 * BitAt(bits, 12 * i - 9) + 8 * BitAt(bits, 12 * i - 8)
        + 16 * BitAt(bits, 12 * i - 7) + 32 * BitAt(bits, 12 * i - 6)
        + 64 * BitAt(bits, 12 * i - 5) + 128 * BitAt(bits, 12 * i - 4)
        + 256 * BitAt(bits, 12 * i - 3) + 512 * BitAt(bits, 12 * i - 2)
        + 1024 * BitAt(bits, 12 * i - 1) + 2048 * BitAt(bits, 12 * i)]

\* the groups of the product of the number of groups l and k, a positive
\* integer under 2^18, exactly
RECURSIVE TimesLimbs(_, _, _, _, _)
TimesLimbs(l, k, i, carry, out) ==
    IF i > Len(l)
       THEN IF carry = 0 THEN out
            ELSE TimesLimbs(l, k, i, carry \div 4096, Append(out, carry % 4096))
       ELSE TimesLimbs(l, k, i + 1, (l[i] * k + carry) \div 4096,
                       Append(out, (l[i] * k + carry) % 4096))

\* the bits of the number of groups l, whose last group is not 0, up to its
\* highest bit that is 1
BitsOf(l) ==
    [j \in 1..(12 * (Len(l) - 1)
               + (CHOOSE n \in 1..12 : Pow2(n - 1) <= l[Len(l)] /\ l[Len(l)] < Pow2(n))) |->
        (l[(j - 1) \div 12 + 1] \div Pow2((j - 1) % 12)) % 2]

\* the significand kept plus one
BitsPlusOne(kept, x) ==
    IF \A i \in 1..Len(kept) : kept[i] = 1
       THEN [m |-> [i \in 1..Len(kept) |-> IF i = Len(kept) THEN 1 ELSE 0], x |-> x + 1]
       ELSE [m |-> [i \in 1..Len(kept) |->
                       IF \A j \in 1..i : kept[j] = 1 THEN 0
                       ELSE IF \A j \in 1..(i - 1) : kept[j] = 1 THEN 1
                       ELSE kept[i]],
             x |-> x]

\* the double nearest to bits * 2^x, ties to the even significand: the d
\* lowest bits are dropped.  (A value that is used more than once is bound
\* as the member of a one-element set, which computes it once.)
RoundBits(bits, x, d) ==
    IF d <= 0 THEN [m |-> bits, x |-> x]
    ELSE IF /\ bits[d] = 1
            /\ \/ \E i \in 1..(d - 1) : bits[i] = 1
               \/ bits[d + 1] = 1
       THEN CHOOSE r \in {BitsPlusOne(kept, x + d) :
                             kept \in {SubSeq(bits, d + 1, Len(bits))}} : TRUE
       ELSE [m |-> SubSeq(bits, d + 1, Len(bits)), x |-> x + d]

\* the double product of the double v and the positive integer k
TimesDouble(v, k) ==
    CHOOSE r \in {RoundBits(bits, v.x, Len(bits) - 53) :
                     bits \in {BitsOf(p) :
                                  p \in {TimesLimbs(l, k, 1, 0, <<>>) :
                                            l \in {LimbsOf(v.m)}}}} : TRUE

\* the number of up to three groups l
LimbsValue(l) ==
    (IF Len(l) >= 1 THEN l[1] ELSE 0) + (IF Len(l) >= 2 THEN 4096 * l[2] ELSE 0)
    + (IF Len(l) >= 3 THEN 4096 * 4096 * l[3] ELSE 0)

\* int(v) for a double v of magnitude under 2^31: the bits under the point
\* are dropped
IntOfDouble(v) ==
    IF -v.x >= Len(v.m) THEN 0
    ELSE CHOOSE n \in {LimbsValue(l) :
                          l \in {LimbsOf(IF v.x >= 0 THEN [i \in 1..v.x |-> 0] \o v.m
                                         ELSE SubSeq(v.m, 1 - v.x, Len(v.m)))}} : TRUE

\* avail * ratio * 5 as Python computes it, for a positive avail: two double
\* products, each rounded to the nearest double
TimesRatioTimes5(avail, ratio) ==
    CHOOSE q \in {TimesDouble(p, 5) :
                     p \in {TimesDouble(v, avail) :
                               v \in {DoubleOf(RatioHex(ratio))}}} : TRUE

\* line 82, int(avail * ratio * 5): the characters allocated to a section,
\* ratio in hundredths; int drops the fraction, towards zero for a negative
\* avail as well
SectionLimit(avail, ratio) ==
    IF avail = 0 THEN 0
    ELSE CHOOSE n \in {(IF avail > 0 THEN 1 ELSE -1) * IntOfDouble(q) :
                          q \in {TimesRatioTimes5(IF avail > 0 THEN avail ELSE -avail,
                                                  ratio)}} : TRUE

\* line 86, content[:half]: the characters kept of the head; a negative
\* half counts from the end
HeadChars(n, half) == IF half >= 0 THEN Min(half, n) ELSE Max(n + half, 0)

\* line 86, content[-half:]: the characters kept of the tail; content[-0:]
\* is the whole content, and under a negative half the slice starts at
\* position -half
TailChars(n, half) ==
    IF half = 0 THEN n
    ELSE IF half > 0 THEN Min(half, n)
    ELSE Max(n + half, 0)

\* lines 84-86: the characters kept of a section of n characters under limit;
\* the marker "\n... [truncated] ...\n" has 21 characters
KeptChars(n, limit) ==
    IF n > limit
       THEN HeadChars(n, limit \div 2) + 21 + TailChars(n, limit \div 2)
       ELSE n

\* lines 80-87: the sections of section_map that were found, in its order
SmartPart(m, n, limit) ==
    [key |-> m[1],
     title |-> m[2],
     limit |-> limit,
     cut |-> n > limit,
     head |-> IF n > limit THEN HeadChars(n, limit \div 2) ELSE n,
     tail |-> IF n > limit THEN TailChars(n, limit \div 2) ELSE 0,
     chars |-> KeptChars(n, limit)]

SmartParts(sections, avail) ==
    LET present == SelectSeq(section_map, LAMBDA m : m[1] \in DOMAIN sections)
    IN  [k \in 1..Len(present) |->
            CHOOSE part \in {SmartPart(present[k], sections[present[k][1]], limit) :
                                limit \in {SectionLimit(avail, present[k][3])}} : TRUE]

\* summarizer.py, prepare_smart_context, lines 53-88: the header and the
\* whole text when the estimate is under the margin, else the header and
\* the sections
prepare_smart_context(full_text, rd, sections, budget) ==
    IF FitsBudget(estimate_tokens(full_text.len), budget)
       THEN [header |-> rd, complete |-> TRUE, text |-> full_text, parts |-> <<>>]
       ELSE [header |-> rd, complete |-> FALSE, text |-> NoDoc,
             parts |-> SmartParts(sections, Avail(rd, budget))]

\* _run_single_pass, lines 93-99: the portal's template with the schema, the
\* pre-extracted data and the context put in
SinglePassPrompt(p, rd, ctx) == <<"TEMPLATE", p, "TENDER_SCHEMA", rd, ctx>>

\* the size in characters of an answer of the capability to a chunk
ReplyChars == 2000

\* the length of a micro-summary: an answer, or the marker
\* "[Error: " + str(e) + "]" (batch_processor.py, line 69)
SummaryChars(m) ==
    CASE m = ErrorMarker("429") -> 12
      [] m = ErrorMarker("timeout") -> 16
      [] OTHER -> ReplyChars

\* batch_processor.py, line 85: the length of the header of the merged
\* context, "=== PRE-EXTRACTED DATA ===\n" and json.dumps(rule_data) and a
\* line feed
MergeHeaderChars(rd) == 27 + DumpsLen(Dict(rd), 0, 0) + 1

\* bug: a section that does not fit is skipped and the loop goes on
RECURSIVE MergeLoopSkips(_, _, _, _, _)
MergeLoopSkips(summaries, i, out, used, budget) ==
    IF i > Len(summaries) THEN out
    ELSE LET snippet == 19 + SummaryChars(summaries[i])
         IN  IF used + snippet < budget
                THEN MergeLoopSkips(summaries, i + 1,
                               Append(out, [key |-> i, title |-> "Section",
                                            chars |-> snippet, body |-> summaries[i]]),
                               used + snippet, budget)
                ELSE MergeLoopSkips(summaries, i + 1, out, used, budget)

\* lines 88-91: the sections are added in order while the context stays
\* under the budget, and the loop breaks at the first that does not fit;
\* "\n--- Section i ---\n" has 19 characters for i < 10
RECURSIVE MergeLoop(_, _, _, _, _)
MergeLoop(summaries, i, out, used, budget) ==
    IF i > Len(summaries) THEN out
    ELSE LET snippet == 19 + SummaryChars(summaries[i])
         IN  IF used + snippet < budget
                THEN MergeLoop(summaries, i + 1,
                               Append(out, [key |-> i, title |-> "Section",
                                            chars |-> snippet, body |-> summaries[i]]),
                               used + snippet, budget)
                ELSE out

\* batch_processor.py, merge_micro_summaries, lines 83-92
merge_micro_summaries(summaries, rd, limit) ==
    [header |-> rd, complete |-> FALSE, text |-> NoDoc,
     parts |-> MergeLoop(summaries, 1, <<>>, MergeHeaderChars(rd),
                         limit - MergeHeaderChars(rd) - 500)]

MergeMaxChars == 50000

\* batch_processor.py, create_final_prompt, lines 176-178
create_final_prompt(ctx) == <<"FINAL_STRUCTURED_PROMPT", ctx, "TENDER_SCHEMA">>

\* json.dumps(v), line 132, on the values of the model
RECURSIVE JsonDumps(_)
JsonDumps(v) ==
    CASE v.t = "none" -> "null"
      [] v.t = "str" -> "\"" \o v.s \o "\""
      [] v.t = "list" ->
            "[" \o JoinStr([i \in 1..Len(v.l) |-> "\"" \o v.l[i] \o "\""], ", ") \o "]"
      [] v.t = "dict" ->
            LET ks == KeysOf(v.d)
            IN  "{" \o JoinStr([i \in 1..Len(ks) |->
                                  "\"" \o ks[i] \o "\": " \o JsonDumps(v.d[ks[i]])], ", ") \o "}"

\* schema.py, coerce_to_string, lines 127-133, on the values of the model
coerce_to_string(v) ==
    CASE v.t = "none" -> ""
      [] v.t = "str" -> v.s
      [] v.t = "list" -> JoinStr(v.l, "; ")
      [] v.t = "dict" -> JsonDumps(v)

\* schema.py, coerce_documents_required, lines 320-327
coerce_documents_required(v) ==
    CASE v.t = "str" -> <<v.s>>
      [] v.t = "list" -> v.l
      [] OTHER -> <<>>

\* the fields of a sequence
Range(q) == {q[i] : i \in 1..Len(q)}

\* bug: the fields of the section are taken as the capability wrote them
KeyDatesRaw(f) ==
    [k \in Range(SectionFields["key_dates"]) |-> IF k \in DOMAIN f THEN f[k] ELSE Str("")]

\* schema.py, KeyDates, lines 188-205: the fields of the section, each
\* coerced to a string, "" by default; a key the class does not name is
\* ignored
KeyDates(f) ==
    [k \in Range(SectionFields["key_dates"]) |->
        IF k \in DOMAIN f THEN Str(coerce_to_string(f[k])) ELSE Str("")]

\* schema.py, lines 147-295: the other section models, which coerce as
\* KeyDates does
SectionModel(section, f) ==
    [k \in Range(SectionFields[section]) |->
        IF k \in DOMAIN f THEN Str(coerce_to_string(f[k])) ELSE Str("")]

\* lines 305-307: the fields coerce_documents_required makes lists of
DocumentLists ==
    {"documents_required", "online_submission_documents", "offline_submission_documents"}

\* TenderSummary(**rec) raises a ValidationError: a section that is not a
\* dictionary, an executive_summary that is not a string or external_links
\* that is not a list (no validator coerces them)
TenderSummaryRaises(rec) ==
    \/ \E k \in DOMAIN SectionFields : k \in DOMAIN rec /\ ~IsDict(rec[k])
    \/ "executive_summary" \in DOMAIN rec /\ rec["executive_summary"].t # "str"
    \/ "external_links" \in DOMAIN rec /\ rec["external_links"].t # "list"

\* schema.py, TenderSummary(**rec).model_dump(), lines 298-327: every field
\* of the schema is there, with its default when the record does not name
\* it; a key the class does not name is ignored
TenderSummary(rec) ==
    [k \in Range(RootFields) |->
        CASE k = "key_dates" ->
                 Dict(KeyDates(IF k \in DOMAIN rec THEN rec[k].d ELSE <<>>))
          [] k \in DOMAIN SectionFields /\ k # "key_dates" ->
                 Dict(SectionModel(k, IF k \in DOMAIN rec THEN rec[k].d ELSE <<>>))
          [] k \in DocumentLists ->
                 List(IF k \in DOMAIN rec THEN coerce_documents_required(rec[k]) ELSE <<>>)
          [] k = "pre_qualification_requirement" ->
                 Str(IF k \in DOMAIN rec THEN coerce_to_string(rec[k]) ELSE "")
          [] k = "executive_summary" ->
                 IF k \in DOMAIN rec THEN rec[k] ELSE Str("")
          [] k = "external_links" ->
                 IF k \in DOMAIN rec THEN rec[k] ELSE List(<<>>)]

\* portal_validator.py, is_field_empty, lines 31-39
is_field_empty(v) ==
    CASE v.t = "none" -> TRUE
      [] v.t = "str" -> LowerStrip(v.s) \in {"not found", "not mentioned", "not specified", "n/a", ""}
      [] v.t = "list" -> v.l = <<>>
      [] v.t = "dict" -> DOMAIN v.d = {}

\* portal_validator.py, lines 12-18
GEM_REQUIRED_FIELDS ==
    << <<"tender_meta", <<"tender_id", "tender_title", "portal", "item_category",
                          "total_quantity", "boq_title">> >>,
       <<"eligibility_snapshot", <<"turnover_requirement", "oem_turnover_requirement",
                                   "experience_required">> >>,
       <<"financial_requirements", <<"epbg_details">> >>,
       <<"additional_important_information",
         <<"evaluation_method", "bid_to_ra_enabled", "technical_clarification_time",
           "buyer_added_atc">> >>,
       <<"root", <<"pre_qualification_requirement">> >> >>

\* lines 21-26
CPPP_REQUIRED_FIELDS ==
    << <<"tender_meta", <<"tender_id", "tender_title", "portal">> >>,
       <<"key_dates", <<"date_and_time_of_issue", "due_date_and_time_of_submission">> >>,
       <<"documents_required", <<"online_submission_documents",
                                 "offline_submission_documents">> >>,
       <<"eligibility_snapshot", <<"bidder_technical_infrastructure">> >> >>

\* lines 131-136
critical_fields ==
    << <<"tender_meta", "tender_id">>, <<"tender_meta", "tender_title">>,
       <<"key_dates", "bid_end">>, <<"financial_requirements", "emd">> >>

RECURSIVE RequiredPairs(_)
\* the pairs of section and field of a table of required fields, in the
\* order of its loops
RequiredPairs(required) ==
    IF required = <<>> THEN <<>>
    ELSE [i \in 1..Len(Head(required)[2]) |-> <<Head(required)[1], Head(required)[2][i]>>]
         \o RequiredPairs(Tail(required))

\* d.get(k)
Get(d, k) == IF k \in DOMAIN d THEN d[k] ELSE None

\* d.get(k, default)
GetOr(d, k, default) == IF k \in DOMAIN d THEN d[k] ELSE default

\* lines 54-57 and 90-93: data itself for "root", else data.get(section, {})
SectionData(data, section) ==
    IF section = "root" THEN data ELSE GetOr(data, section, Dict(<<>>)).d

\* lines 59-62, 95-98 and 138-143: f"{section}.{field}" for each required
\* field whose value is empty, in order
MissingFields(data, pairs) ==
    LET missing == SelectSeq(pairs, LAMBDA sf : is_field_empty(Get(SectionData(data, sf[1]), sf[2])))
    IN  [i \in 1..Len(missing) |-> missing[i][1] \o "." \o missing[i][2]]

\* not v, for a JSON value
Falsy(v) ==
    CASE v.t = "none" -> TRUE
      [] v.t = "str" -> v.s = ""
      [] v.t = "list" -> v.l = <<>>
      [] v.t = "dict" -> DOMAIN v.d = {}

\* the warnings whose condition holds, in order
Warnings(ws) ==
    LET on == SelectSeq(ws, LAMBDA w : w[1]) IN [i \in 1..Len(on) |-> on[i][2]]

\* portal_validator.py, validate_gem_fields, lines 42-75
validate_gem_fields(data) ==
    LET missing == MissingFields(data, RequiredPairs(GEM_REQUIRED_FIELDS))
        pre_qual == GetOr(data, "pre_qualification_requirement", Str(""))
        documents == GetOr(SectionData(data, "documents_required"), "documents_required",
                           List(<<>>))
    IN  [is_valid |-> missing = <<>>,
         missing_fields |-> missing,
         warnings |-> Warnings(<<
             <<is_field_empty(pre_qual),
               "pre_qualification_requirement is empty - GeM tenders MUST have this">>,
             <<Falsy(documents),
               "documents_required is empty - should contain pre-qual documents">> >>)]

\* portal_validator.py, validate_cppp_fields, lines 78-117
validate_cppp_fields(data) ==
    LET missing == MissingFields(data, RequiredPairs(CPPP_REQUIRED_FIELDS))
        docs == SectionData(data, "documents_required")
        online_docs == GetOr(docs, "online_submission_documents", List(<<>>))
        offline_docs == GetOr(docs, "offline_submission_documents", List(<<>>))
        date_issue == Get(SectionData(data, "key_dates"), "date_and_time_of_issue")
        date_due == Get(SectionData(data, "key_dates"), "due_date_and_time_of_submission")
    IN  [is_valid |-> missing = <<>>,
         missing_fields |-> missing,
         warnings |-> Warnings(<<
             <<Falsy(online_docs),
               "online_submission_documents is empty - CPPP tenders must separate online docs">>,
             <<Falsy(offline_docs),
               "offline_submission_documents is empty - check if physical submission is required">>,
             <<is_field_empty(date_issue) \/ is_field_empty(date_due),
               "CPPP date fields should have specific labels - verify extraction">> >>)]

\* portal_validator.py, validate_generic_fields, lines 120-145
validate_generic_fields(data) ==
    LET missing == MissingFields(data, critical_fields)
    IN  [is_valid |-> missing = <<>>, missing_fields |-> missing, warnings |-> <<>>]

\* portal_validator.py, validate_portal_specific_fields, lines 148-159
validate_portal_specific_fields(data, portal_type) ==
    CASE portal_type = "GeM" -> validate_gem_fields(data)
      [] portal_type = "CPPP" -> validate_cppp_fields(data)
      [] OTHER -> validate_generic_fields(data)

\* the sections on which the validator calls .get for a portal: lines 57,
\* 71, 93, 101-109, 139, 172, 176 and 189-190
SectionsRead(portal_type) ==
    {"tender_meta", "key_dates"}
    \cup CASE portal_type = "GeM" ->
                  {"eligibility_snapshot", "financial_requirements",
                   "additional_important_information", "documents_required"}
           [] portal_type = "CPPP" -> {"documents_required", "eligibility_snapshot"}
           [] OTHER -> {"financial_requirements"}

\* data.get(section, {}).get(...) raises AttributeError when the section is
\* there and is not a dictionary, as the list that model_dump puts at
\* documents_required
ValidationRaises(data, p) ==
    \E section \in SectionsRead(p) : section \in DOMAIN data /\ ~IsDict(data[section])

\* line 183: "|" in pre_qual, on the strings of the model
HasSeparator(x) == x = "Turnover: 25 Lakh | Experience: 3 Year(s)"

\* portal_validator.py, validate_extraction_completeness, lines 162-202
validate_extraction_completeness(data, portal_type) ==
    LET validation == validate_portal_specific_fields(data, portal_type)
        tender_id == GetOr(SectionData(data, "tender_meta"), "tender_id", Str(""))
        bid_end == GetOr(SectionData(data, "key_dates"), "bid_end", Str(""))
        pre_qual == GetOr(data, "pre_qualification_requirement", Str(""))
        docs == SectionData(data, "documents_required")
        online == GetOr(docs, "online_submission_documents", List(<<>>))
        offline == GetOr(docs, "offline_submission_documents", List(<<>>))
        warnings == validation.warnings \o Warnings(<<
            <<is_field_empty(tender_id), "Tender ID is missing - this is a critical field">>,
            <<is_field_empty(bid_end),
              "Bid end date is missing - this is critical for bidding timeline">>,
            <<portal_type = "GeM" /\ pre_qual.t = "str" /\ ~HasSeparator(pre_qual.s),
              "pre_qualification_requirement format may be incomplete (missing | separators)">>,
            <<portal_type = "CPPP" /\ Falsy(online) /\ Falsy(offline),
              "Neither online nor offline submission documents found - envelope structure may not be extracted">> >>)
    IN  [is_valid |-> validation.is_valid,
         missing_fields |-> validation.missing_fields,
         warnings |-> warnings,
         portal_type |-> portal_type,
         validation_summary |->
             [total_issues |-> Len(validation.missing_fields) + Len(warnings),
              missing_fields_count |-> Len(validation.missing_fields),
              warnings_count |-> Len(warnings)]]

stop_words == {"not found", "not mentioned", "not specified", "n/a", "", "null", "none"}

\* summarizer.py, clean_empty_fields, lines 156-177
RECURSIVE clean_empty_fields(_)
clean_empty_fields(v) ==
    CASE v.t = "dict" ->
            LET child == [k \in DOMAIN v.d |->
                             IF k = "_metadata" THEN v.d[k] ELSE clean_empty_fields(v.d[k])]
                kept == {k \in DOMAIN v.d :
                            \/ k = "_metadata"
                            \/ /\ ~(child[k].t = "str" /\ LowerStrip(child[k].s) \in stop_words)
                               /\ child[k].t # "none"
                               /\ ~(child[k].t = "list" /\ child[k].l = <<>>)
                               /\ ~(child[k].t = "dict" /\ DOMAIN child[k].d = {})}
            IN  Dict([k \in kept |-> child[k]])
      [] v.t = "list" -> List(SelectSeq(v.l, LAMBDA i : i # ""))
      [] OTHER -> v

\* an answer that names every field of the schema: "x" in every field but
\* the two dates and the summary
FullAnswer(bid_end) ==
    [k \in Range(RootFields) |->
        CASE k = "key_dates" ->
                 Dict([f \in Range(SectionFields[k]) |->
                          CASE f = "bid_start" -> Str("2024-01-01")
                            [] f = "bid_end" -> Str(bid_end)
                            [] OTHER -> Str("x")])
          [] k \in DOMAIN SectionFields /\ k # "key_dates" ->
                 Dict([f \in Range(SectionFields[k]) |-> Str("x")])
          [] k = "pre_qualification_requirement" -> Str("x")
          [] k = "executive_summary" -> Str("2024-01-01")
          [] OTHER -> List(<<"x">>)]

\* what the capability can answer to the structuring call, once parsed to a
\* dictionary: the two dates and the summary; a date with a placeholder; a
\* field left out; a section that is null; a list and an object where
\* strings are expected and an object where a list is; a list for the
\* summary; the empty record; every field of the schema; and every field
\* with a placeholder for one date
RunAnswers ==
    {[key_dates |-> Dict([bid_start |-> Str("2024-01-01"), bid_end |-> Str("2024-02-01")]),
      executive_summary |-> Str("2024-01-01")],
     [key_dates |-> Dict([bid_start |-> Str("2024-01-01"), bid_end |-> Str("Not mentioned")])],
     [key_dates |-> Dict([bid_start |-> Str("2024-01-01")])],
     [key_dates |-> None],
     [key_dates |-> Dict([bid_start |-> List(<<"2024-01-01", "2024-01-02">>),
                          bid_end |-> Dict([bid_end |-> Str("2024-02-01")])]),
      documents_required |-> Dict([bid_end |-> Str("2024-02-01")])],
     [executive_summary |-> List(<<"2024-01-01">>)],
     <<>>,
     FullAnswer("2024-02-01"),
     FullAnswer("Not mentioned")}

\* what the capability can answer to the refill call, once parsed: the
\* missing date, a placeholder for it, placeholders for it and for a date
\* that was not asked for, an object holding it, and a string in place of
\* the section
RunRefills ==
    {[key_dates |-> Dict([bid_end |-> Str("2024-02-01")])],
     [key_dates |-> Dict([bid_end |-> Str("Not mentioned")])],
     [key_dates |-> Dict([bid_start |-> Str("Not mentioned"), bid_end |-> Str("Not mentioned")])],
     [key_dates |-> Dict([bid_end |-> Dict([bid_end |-> Str("2024-02-01")])])],
     [key_dates |-> Str("2024-01-01")]}

\* the exception leaves process_tender_multi_file: line 152-154
RunFails(err) ==
    /\ stage' = "FAILED"
    /\ runErr' = err

\* the decoded document is at hand
InitRun ==
    /\ InitLimiter
    /\ InitNoBatch
    /\ InitNoText
    /\ InitNoCall
    /\ InitNoMerge
    /\ InitNoRefill
    /\ doc \in Docs
    /\ stage = "START"
    /\ trace = <<>>
    /\ portal = ""
    /\ rule_data = NoRuleData
    /\ est = 0
    /\ strategy = "none"
    /\ context = NoContext
    /\ fanCalls = 0
    /\ summary = NoRecord
    /\ fields_filled = 0
    /\ output = NoOutput
    /\ runErr = NoError
    /\ InitNoScan
    /\ InitNoAgain

\* CLASSIFY, line 118
RunClassify ==
    /\ stage = "START"
    /\ portal' = detect_portal(doc.found)
    /\ trace' = trace \o <<S("CLASSIFY"), E("CLASSIFY")>>
    /\ stage' = "CLASSIFIED"
    /\ UNCHANGED <<doc, rule_data, est, strategy, context, fanCalls, summary,
                   fields_filled, output, runErr>>
    /\ UNCHANGED <<bucketVars, windowVars, fanVars, textVars, callVars, mergeVars, refillVars, scanVars, againVars>>

\* PRE_EXTRACT, lines 119-120
RunPreExtract ==
    /\ stage = "CLASSIFIED"
    /\ rule_data' = extract_structured_fields(doc)
    /\ est' = estimate_tokens(doc.len)
    /\ trace' = trace \o <<S("PRE_EXTRACT"), E("PRE_EXTRACT")>>
    /\ stage' = "PRE_EXTRACTED"
    /\ UNCHANGED <<doc, portal, strategy, context, fanCalls, summary,
                   fields_filled, output, runErr>>
    /\ UNCHANGED <<bucketVars, windowVars, fanVars, textVars, callVars, mergeVars, refillVars, scanVars, againVars>>

\* lines 123-124 and _run_single_pass up to its call, lines 92-100
RunSinglePass ==
    /\ stage = "PRE_EXTRACTED"
    /\ SinglePass(est)
    /\ strategy' = "SINGLE_PASS"
    /\ context' = prepare_smart_context(doc, rule_data, extract_critical_sections(doc),
                                        DEFAULT_CONTEXT_BUDGET)
    /\ CallStart(SinglePassPrompt(portal, rule_data, context'))
    /\ trace' = Append(trace, S("SINGLE_PASS"))
    /\ stage' = "SINGLE_PASS"
    /\ UNCHANGED <<doc, portal, rule_data, est, fanCalls, summary, fields_filled,
                   output, runErr>>
    /\ UNCHANGED <<bucketVars, windowVars, fanVars, textVars, mergeVars, refillVars, scanVars, againVars>>

\* lines 125-127 and process_large_document up to its fan-out: the chunk
\* planner cuts the document into n chunks, and process_micro_batches is
\* called with them and call_groq_with_retry
RunHierarchical ==
    /\ stage = "PRE_EXTRACTED"
    /\ ~SinglePass(est)
    /\ strategy' = "HIERARCHICAL"
    /\ \E n \in 1..NumChunks :
          /\ chunks' = [i \in 1..n |-> ChunkText(i)]
          /\ cpc' = [i \in 1..n |-> "queued"]
          /\ attempt' = [i \in 1..n |-> 0]
          /\ sent' = [i \in 1..n |-> <<>>]
          /\ outcome' = [i \in 1..n |-> NoOutcome]
          /\ ret' = [i \in 1..n |-> NoResult]
    /\ batch' = "running"
    /\ sem' = max_concurrent
    /\ done_order' = <<>>
    /\ results' = <<>>
    /\ reserved' = {}
    /\ trace' = Append(trace, S("HIERARCHICAL"))
    /\ stage' = "HIERARCHICAL"
    /\ UNCHANGED <<doc, portal, rule_data, est, context, fanCalls, summary,
                   fields_filled, output, runErr>>
    /\ UNCHANGED <<bucketVars, windowVars, textVars, callVars, mergeVars, refillVars, scanVars, againVars>>

\* process_large_document after its fan-out: the consolidator merges the
\* micro-summaries with the pre-extracted data and makes the one final
\* structuring call; the frame of process_micro_batches is gone
RunConsolidate ==
    /\ stage = "HIERARCHICAL"
    /\ batch = "returned"
    /\ callPc = "idle"
    /\ context' = merge_micro_summaries(results, rule_data, MergeMaxChars)
    /\ fanCalls' = Cardinality({i \in Chunk : sent[i] # <<>>})
    /\ CallStart(create_final_prompt(context'))
    /\ chunks' = chunks
    /\ batch' = "consolidated"
    /\ sem' = max_concurrent
    /\ cpc' = <<>>
    /\ attempt' = <<>>
    /\ sent' = <<>>
    /\ outcome' = <<>>
    /\ ret' = <<>>
    /\ done_order' = <<>>
    /\ results' = <<>>
    /\ reserved' = {}
    /\ UNCHANGED <<doc, stage, trace, portal, rule_data, est, strategy, summary,
                   fields_filled, output, runErr>>
    /\ UNCHANGED <<bucketVars, windowVars, textVars, mergeVars, refillVars, scanVars, againVars>>

\* the structuring call of the selected strategy is awaited
Structuring ==
    \/ stage = "SINGLE_PASS"
    \/ stage = "HIERARCHICAL" /\ batch = "consolidated"

\* lines 101 and 128: the answer parses to the record rec, of which
\* TenderSummary makes the candidate record, or raises
RunParsed(rec) ==
    /\ Structuring
    /\ callPc = "returned"
    /\ IF TenderSummaryRaises(rec)
          THEN /\ RunFails("ValidationError")
               /\ UNCHANGED <<summary, trace>>
          ELSE /\ summary' = TenderSummary(rec)
               /\ trace' = Append(trace, E(strategy))
               /\ stage' = "EXTRACTED"
               /\ UNCHANGED runErr
    /\ CallReset
    /\ UNCHANGED <<doc, portal, rule_data, est, strategy, context, fanCalls,
                   fields_filled, output>>
    /\ UNCHANGED <<bucketVars, windowVars, fanVars, textVars, mergeVars, refillVars, scanVars, againVars>>

\* line 101: the answer does not parse, validate_json_response raises
RunBadAnswer ==
    /\ Structuring
    /\ callPc = "returned"
    /\ RunFails("ValueError")
    /\ CallReset
    /\ UNCHANGED <<doc, trace, portal, rule_data, est, strategy, context, fanCalls,
                   summary, fields_filled, output>>
    /\ UNCHANGED <<bucketVars, windowVars, fanVars, textVars, mergeVars, refillVars, scanVars, againVars>>

\* lines 101 and 128: the answer parses to a list, a string, a number or
\* null; validate_json_response returns it and TenderSummary(**...) raises
\* TypeError, the argument after ** is not a mapping
RunNotMapping ==
    /\ Structuring
    /\ callPc = "returned"
    /\ RunFails("TypeError")
    /\ CallReset
    /\ UNCHANGED <<doc, trace, portal, rule_data, est, strategy, context, fanCalls,
                   summary, fields_filled, output>>
    /\ UNCHANGED <<bucketVars, windowVars, fanVars, textVars, mergeVars, refillVars, scanVars, againVars>>

\* bug: the failure of the structuring call is swallowed and the run goes on
\* with the record of defaults
RunCallRaisedSwallowed ==
    /\ Structuring
    /\ callPc = "raised"
    /\ summary' = TenderSummary(<<>>)
    /\ trace' = Append(trace, E(strategy))
    /\ stage' = "EXTRACTED"
    /\ CallReset
    /\ UNCHANGED <<doc, portal, rule_data, est, strategy, context, fanCalls,
                   fields_filled, output, runErr>>
    /\ UNCHANGED <<bucketVars, windowVars, fanVars, textVars, mergeVars, refillVars, scanVars, againVars>>

\* line 100: the structuring call raised after its last attempt
RunCallRaised ==
    /\ Structuring
    /\ callPc = "raised"
    /\ RunFails(callExc)
    /\ CallReset
    /\ UNCHANGED <<doc, trace, portal, rule_data, est, strategy, context, fanCalls,
                   summary, fields_filled, output>>
    /\ UNCHANGED <<bucketVars, windowVars, fanVars, textVars, mergeVars, refillVars, scanVars, againVars>>

\* bug: a candidate record with no critical gap goes on to FINALIZE with no
\* GAP_FILL stage
RunGapScanSkipped ==
    /\ stage = "EXTRACTED"
    /\ IF critical_missing(summary) > 0
          THEN /\ draft' = summary
               /\ fpc' = "start"
               /\ stage' = "GAP_FILL"
               /\ trace' = Append(trace, S("GAP_FILL"))
          ELSE /\ stage' = "GAP_FILLED"
               /\ UNCHANGED <<draft, fpc, trace>>
    /\ UNCHANGED <<critical, answer, filled, fillErr>>
    /\ UNCHANGED <<doc, portal, rule_data, est, strategy, context, fanCalls, summary,
                   fields_filled, output, runErr>>
    /\ UNCHANGED <<bucketVars, windowVars, fanVars, textVars, callVars, mergeVars, scanVars, againVars>>

\* GAP_FILL, lines 131-135: the scan, and fill_missing_fields is called when
\* the candidate record has a critical gap
RunGapScan ==
    /\ stage = "EXTRACTED"
    /\ IF critical_missing(summary) > 0
          THEN /\ draft' = summary
               /\ fpc' = "start"
               /\ stage' = "GAP_FILL"
               /\ trace' = Append(trace, S("GAP_FILL"))
          ELSE /\ stage' = "GAP_FILLED"
               /\ trace' = trace \o <<S("GAP_FILL"), E("GAP_FILL")>>
               /\ UNCHANGED <<draft, fpc>>
    /\ UNCHANGED <<critical, answer, filled, fillErr>>
    /\ UNCHANGED <<doc, portal, rule_data, est, strategy, context, fanCalls, summary,
                   fields_filled, output, runErr>>
    /\ UNCHANGED <<bucketVars, windowVars, fanVars, textVars, callVars, mergeVars, scanVars, againVars>>

\* lines 136-139: fill_missing_fields returned; TenderSummary makes the
\* candidate record of what it returned, or raises; the frame of
\* fill_missing_fields is gone, and the error it logged (gap_filler.py,
\* line 125) stays logged
RunGapFilled ==
    /\ stage = "GAP_FILL"
    /\ fpc = "returned"
    /\ IF TenderSummaryRaises(filled)
          THEN /\ RunFails("ValidationError")
               /\ UNCHANGED <<summary, fields_filled, trace>>
          ELSE /\ summary' = TenderSummary(filled)
               /\ fields_filled' = critical_missing(summary) - critical_missing(summary')
               /\ trace' = Append(trace, E("GAP_FILL"))
               /\ stage' = "GAP_FILLED"
               /\ UNCHANGED runErr
    /\ draft' = <<>>
    /\ critical' = <<>>
    /\ answer' = NoAnswer
    /\ filled' = <<>>
    /\ fpc' = "idle"
    /\ UNCHANGED fillErr
    /\ UNCHANGED <<doc, portal, rule_data, est, strategy, context, fanCalls, output>>
    /\ UNCHANGED <<bucketVars, windowVars, fanVars, textVars, callVars, mergeVars, scanVars, againVars>>

\* FINALIZE, lines 141-151: validation, which raises for GeM and CPPP, the
\* metadata and the cleanup; the result is returned
RunFinalize ==
    /\ stage = "GAP_FILLED"
    /\ IF ValidationRaises(summary, portal)
          THEN /\ RunFails("AttributeError")
               /\ trace' = Append(trace, S("FINALIZE"))
               /\ UNCHANGED output
          ELSE /\ output' = [summary |-> clean_empty_fields(Dict(summary)).d,
                             _metadata |->
                                [portal_type |-> portal,
                                 total_tokens |-> est,
                                 fields_filled |-> fields_filled,
                                 validation |-> validate_extraction_completeness(summary, portal)]]
               /\ trace' = trace \o <<S("FINALIZE"), E("FINALIZE")>>
               /\ stage' = "RETURNED"
               /\ UNCHANGED runErr
    /\ UNCHANGED <<doc, portal, rule_data, est, strategy, context, fanCalls, summary,
                   fields_filled>>
    /\ UNCHANGED <<bucketVars, windowVars, fanVars, textVars, callVars, mergeVars, refillVars, scanVars, againVars>>

NextRun ==
    \/ RunClassify
    \/ RunPreExtract
    \/ RunSinglePass
    \/ RunHierarchical
    \/ \E i \in Chunk : Admit(i)
    \/ \E i \in Chunk : AttemptSucceeds(i)
    \/ \E i \in Chunk, e \in Errors : AttemptFails(i, e)
    \/ \E i \in Chunk : Retry(i)
    \/ BatchReturns
    \/ RunConsolidate
    \/ CallSucceeds /\ UNCHANGED <<bucketVars, windowVars, fanVars, textVars, mergeVars, refillVars, runVars, scanVars, againVars>>
    \/ \E e \in Errors, j \in Jitters :
          CallFails(e, j) /\ UNCHANGED <<bucketVars, windowVars, fanVars, textVars, mergeVars, refillVars, runVars, scanVars, againVars>>
    \/ CallRetry /\ UNCHANGED <<bucketVars, windowVars, fanVars, textVars, mergeVars, refillVars, runVars, scanVars, againVars>>
    \/ \E rec \in RunAnswers : RunParsed(rec)
    \/ RunBadAnswer
    \/ RunNotMapping
    \/ RunCallRaised
    \/ RunGapScan
    \/ RefillStart /\ UNCHANGED <<bucketVars, windowVars, fanVars, textVars, mergeVars, runVars, scanVars, againVars>>
    \/ \E u \in RunRefills :
          RefillParsed(u) /\ UNCHANGED <<bucketVars, windowVars, fanVars, textVars, mergeVars, runVars, scanVars, againVars>>
    \/ \E err \in AnswerErrors :
          RefillBadAnswer(err) /\ UNCHANGED <<bucketVars, windowVars, fanVars, textVars, mergeVars, runVars, scanVars, againVars>>
    \/ RefillCallRaised /\ UNCHANGED <<bucketVars, windowVars, fanVars, textVars, mergeVars, runVars, scanVars, againVars>>
    \/ RunGapFilled
    \/ RunFinalize

SpecRun == InitRun /\ [][NextRun]_vars

(***************************************************************************)
(* Claims about the run                                                    *)
(***************************************************************************)
Strategies == {"SINGLE_PASS", "HIERARCHICAL"}

\* the stages of a run with strategy s, each started and completed, in order
Canon(s) ==
    <<S("CLASSIFY"), E("CLASSIFY"), S("PRE_EXTRACT"), E("PRE_EXTRACT"), S(s), E(s),
      S("GAP_FILL"), E("GAP_FILL"), S("FINALIZE"), E("FINALIZE")>>

IsPrefix(a, b) == Len(a) <= Len(b) /\ a = SubSeq(b, 1, Len(a))

Events(t) == {t[k] : k \in 1..Len(t)}

\* C13: a run goes through CLASSIFY, PRE_EXTRACT, one of SINGLE_PASS and
\* HIERARCHICAL, GAP_FILL and FINALIZE in this order, each stage at most
\* once and none started before the one before it is completed; a result is
\* returned only by a run that has completed all of them, FINALIZE last
C13_StageOrder ==
    /\ \E s \in Strategies : IsPrefix(trace, Canon(s))
    /\ output # NoOutput <=> stage = "RETURNED"
    /\ stage = "RETURNED" => trace = Canon(strategy)

C13_Witness ==
    /\ stage = "RETURNED"
    /\ strategy = "HIERARCHICAL"
    /\ trace = Canon("HIERARCHICAL")
    /\ output._metadata.fields_filled = 1

\* C14: the run takes SINGLE_PASS exactly when len(document) // 4 is at most
\* 40000 and HIERARCHICAL otherwise; once past PRE_EXTRACT it has taken
\* one of the two, and it never takes both
C14_StrategyByCeiling ==
    LET selected == stage \notin {"START", "CLASSIFIED", "PRE_EXTRACTED"}
        under == doc.len \div 4 <= 40000
    IN  /\ selected <=> strategy \in Strategies
        /\ strategy = "SINGLE_PASS" <=> selected /\ under
        /\ strategy = "HIERARCHICAL" <=> selected /\ ~under
        /\ \A s \in Strategies : S(s) \in Events(trace) <=> strategy = s

C14_Witness ==
    /\ strategy = "SINGLE_PASS"
    /\ doc.len \div 4 = 40000
    /\ stage = "EXTRACTED"

\* the header and the whole document, verbatim
CompleteContext == [header |-> rule_data, complete |-> TRUE, text |-> doc, parts |-> <<>>]

BeforeGapFill == stage \in {"SINGLE_PASS", "HIERARCHICAL", "EXTRACTED"}

\* C15 as stated: for every document at or under the single-pass ceiling the
\* run makes exactly one extraction call before gap-fill, and the call's
\* context is the header and the whole document verbatim
C15_AsClaimed ==
    (strategy = "SINGLE_PASS" /\ BeforeGapFill) =>
        /\ calls = 1
        /\ context = CompleteContext

\* C15: for every document at or under the single-pass ceiling the run
\* makes exactly one extraction call before gap-fill; the call's context is
\* the header and the whole document verbatim when the document's estimate
\* is under nine tenths of the context budget, and the header and the
\* sections found otherwise
C15_OneCall ==
    (strategy = "SINGLE_PASS" /\ BeforeGapFill) =>
        /\ calls = 1
        /\ fanCalls = 0
        /\ IF (doc.len \div 4) * 10 < 15000 * 9
              THEN context = CompleteContext
              ELSE /\ context.header = rule_data
                   /\ context.text = NoDoc
                   /\ ~context.complete
                   /\ {context.parts[k].key : k \in DOMAIN context.parts}
                         = DOMAIN extract_critical_sections(doc)

C15_Witness ==
    /\ strategy = "SINGLE_PASS"
    /\ stage = "EXTRACTED"
    /\ calls = 1
    /\ context = CompleteContext
    /\ doc.len \div 4 = 13499

\* C16: a hierarchical run over n chunks makes one logical call per chunk,
\* n in all, and after them exactly one final structuring call: n + 1
\* logical calls before gap-fill
C16_CallsOfHierarchical ==
    /\ (strategy = "HIERARCHICAL" /\ stage = "EXTRACTED") =>
          /\ fanCalls = Len(chunks)
          /\ calls = 1
          /\ fanCalls + calls = Len(chunks) + 1
    /\ (strategy = "HIERARCHICAL" /\ BeforeGapFill /\ batch # "consolidated") => calls = 0
    /\ (strategy = "HIERARCHICAL" /\ BeforeGapFill) => calls <= 1

C16_Witness ==
    /\ strategy = "HIERARCHICAL"
    /\ stage = "EXTRACTED"
    /\ Len(chunks) >= 2
    /\ fanCalls + calls = Len(chunks) + 1

(***************************************************************************)
(* Part 7: a caller of fill_missing_fields refills the record it got back  *)
(***************************************************************************)
\* what the capability can answer to a refill call, once parsed: both dates,
\* and the answers of RunRefills
TwiceAnswers ==
    RunRefills
        \cup {[key_dates |-> Dict([bid_start |-> Str("2024-01-01"), bid_end |-> Str("2024-02-01")])]}

\* fill_missing_fields, line 103, called on what it returned the first time
RefillAgain ==
    /\ fpc = "returned"
    /\ refills = 0
    /\ first' = [d |-> filled, calls |-> calls]
    /\ refills' = 1
    /\ draft' = filled
    /\ critical' = <<>>
    /\ answer' = NoAnswer
    /\ filled' = <<>>
    /\ fillErr' = NoError
    /\ fpc' = "start"
    /\ UNCHANGED <<bucketVars, windowVars, fanVars, textVars, callVars, mergeVars, runVars, scanVars>>

NextRefillTwice ==
    \/ RefillStart /\ UNCHANGED <<bucketVars, windowVars, fanVars, textVars, mergeVars, runVars, scanVars, againVars>>
    \/ \E u \in TwiceAnswers :
          RefillParsed(u) /\ UNCHANGED <<bucketVars, windowVars, fanVars, textVars, mergeVars, runVars, scanVars, againVars>>
    \/ \E err \in AnswerErrors :
          RefillBadAnswer(err) /\ UNCHANGED <<bucketVars, windowVars, fanVars, textVars, mergeVars, runVars, scanVars, againVars>>
    \/ RefillCallRaised /\ UNCHANGED <<bucketVars, windowVars, fanVars, textVars, mergeVars, runVars, scanVars, againVars>>
    \/ CallSucceeds /\ UNCHANGED <<bucketVars, windowVars, fanVars, textVars, mergeVars, refillVars, runVars, scanVars, againVars>>
    \/ \E e \in Errors, j \in Jitters :
          CallFails(e, j) /\ UNCHANGED <<bucketVars, windowVars, fanVars, textVars, mergeVars, refillVars, runVars, scanVars, againVars>>
    \/ CallRetry /\ UNCHANGED <<bucketVars, windowVars, fanVars, textVars, mergeVars, refillVars, runVars, scanVars, againVars>>
    \/ RefillAgain

SpecRefillTwice == InitRefill /\ [][NextRefillTwice]_vars

\* C21 as stated: a second refill, of the record the first refill returned,
\* returns that record unchanged
C21_AsClaimed ==
    (refills = 1 /\ fpc = "returned") => filled = first.d

\* C21: a second refill, of a record the first refill returned with no
\* critical gap left, makes no extraction call and returns that record
\* unchanged
C21_SecondRefillOfComplete ==
    (refills = 1 /\ fpc = "returned" /\ critical_missing(first.d) = 0) =>
        /\ filled = first.d
        /\ calls = first.calls
        /\ answer = NoAnswer

C21_Witness ==
    /\ refills = 1
    /\ fpc = "returned"
    /\ first.calls = 1
    /\ critical_missing(first.d) = 0
    /\ filled = first.d

(***************************************************************************)
(* Part 8: the gap scan on its own, find_missing_fields                    *)
(***************************************************************************)
\* the values of a field: null, placeholders in the letter case and with the
\* blanks a capability writes them, a date, lists, the empty dictionary and
\* a dictionary nested one level further down
ScanLeaves ==
    {None, Str(""), Str(" N/A "), Str("TBD"), Str("2024-01-01"),
     List(<<>>), List(<<"">>), List(<<"2024-01-01">>),
     Dict(<<>>), Dict([bid_end |-> None])}

\* the dictionaries handed to find_missing_fields
ScanRecords ==
    {[k \in D |-> IF k = "key_dates" THEN kd ELSE es] :
        D \in SUBSET {"key_dates", "executive_summary"},
        kd \in ScanLeaves \cup {Dict(f) : f \in Mappings({"bid_start", "bid_end"}, ScanLeaves)},
        es \in {None, Str("TBD"), Str("2024-01-01")}}

\* a caller hands find_missing_fields a dictionary
InitScan ==
    /\ InitLimiter
    /\ InitNoBatch
    /\ InitNoText
    /\ InitNoCall
    /\ InitNoMerge
    /\ InitNoRefill
    /\ InitNoRun
    /\ InitNoAgain
    /\ tree \in ScanRecords
    /\ gaps = <<>>
    /\ cleaned = <<>>
    /\ spc = "start"

\* find_missing_fields(data), lines 65-97, returns
ScanReturns ==
    /\ spc = "start"
    /\ gaps' = find_missing_fields(tree, "", <<>>)
    /\ spc' = "done"
    /\ UNCHANGED <<tree, cleaned>>
    /\ UNCHANGED <<bucketVars, windowVars, fanVars, textVars, callVars, mergeVars, refillVars, runVars, againVars>>

NextScan == ScanReturns

SpecScan == InitScan /\ [][NextScan]_vars

(***************************************************************************)
(* Claims about the gap scan                                               *)
(***************************************************************************)
\* the fields of mapping f under path: each value that is not a map, and
\* each empty map, with its path
RECURSIVE FieldsUnder(_, _)
FieldsUnder(f, path) ==
    UNION {IF IsDict(f[k]) /\ DOMAIN f[k].d # {}
              THEN FieldsUnder(f[k].d, Append(path, k))
              ELSE {[path |-> Append(path, k), value |-> f[k]]} : k \in DOMAIN f}

\* C22: the gap scan reports a field if and only if it is empty (None, an
\* empty list, an empty nested map, or a string that is a placeholder token
\* once lowered and trimmed), each empty field once, with its full path, at
\* any depth, and no field that is not empty
C22_ScanIffEmpty ==
    spc = "done" =>
        /\ {gaps[i].path : i \in 1..Len(gaps)}
              = {x.path : x \in {y \in FieldsUnder(tree, <<>>) : Empty(y.value)}}
        /\ \A i, j \in 1..Len(gaps) : gaps[i].path = gaps[j].path => i = j

\* C23: the critical flag of a reported gap is true exactly when the
\* registry lists the gap's field under the gap's section, the section of a
\* top-level field being root
C23_CriticalByRegistry ==
    spc = "done" =>
        \A i \in 1..Len(gaps) :
            gaps[i].is_critical
                <=> /\ gaps[i].section \in DOMAIN CRITICAL_FIELDS
                    /\ gaps[i].field \in CRITICAL_FIELDS[gaps[i].section]

(***************************************************************************)
(* Part 9: the classifier on its own, detect_portal                        *)
(***************************************************************************)
\* the indicator phrases a document of the model can hold: four of each
\* portal, of weights 3, 2, 1 and 1
ClassIndicators ==
    {"gem.gov.in", "GeM Portal", "Item Category", "Total Quantity",
     "CPPP", "NIT No", "Online Submission", "Technical Proposal"}

ClassDocs ==
    {[len |-> 4 * SINGLE_PASS_TOKEN_LIMIT, found |-> F, rx |-> <<>>] : F \in SUBSET ClassIndicators}

\* the decoded document is at hand
InitClassify ==
    /\ InitLimiter
    /\ InitNoBatch
    /\ InitNoText
    /\ InitNoCall
    /\ InitNoMerge
    /\ InitNoRefill
    /\ InitNoScan
    /\ InitNoAgain
    /\ doc \in ClassDocs
    /\ stage = "START"
    /\ trace = <<>>
    /\ portal = ""
    /\ rule_data = NoRuleData
    /\ est = 0
    /\ strategy = "none"
    /\ context = NoContext
    /\ fanCalls = 0
    /\ summary = NoRecord
    /\ fields_filled = 0
    /\ output = NoOutput
    /\ runErr = NoError

NextClassify == RunClassify

SpecClassify == InitClassify /\ [][NextClassify]_vars

(***************************************************************************)
(* Claims about the classifier                                             *)
(***************************************************************************)
\* the weight the source gives an indicator phrase
WeightIn(indicators, phrase) ==
    LET at == {k \in 1..Len(indicators) : indicators[k][1] = phrase}
    IN  IF at = {} THEN 0 ELSE indicators[CHOOSE k \in at : TRUE][2]

RECURSIVE SumOver(_, _)
SumOver(indicators, F) ==
    IF F = {} THEN 0
    ELSE LET x == CHOOSE y \in F : TRUE
         IN  WeightIn(indicators, x) + SumOver(indicators, F \ {x})

\* C24: the label is GeM (CPPP) exactly when the summed weight of the GeM
\* (CPPP) indicators found is strictly higher than the other sum and at
\* least 2, and Generic in every other case; the label is a function of the
\* text
C24_LabelByScore ==
    stage = "CLASSIFIED" =>
        LET gem == SumOver(gem_indicators, doc.found)
            cppp == SumOver(cppp_indicators, doc.found)
        IN  /\ portal \in {"GeM", "CPPP", "Generic"}
            /\ portal = "GeM" <=> (gem > cppp /\ gem >= 2)
            /\ portal = "CPPP" <=> (cppp > gem /\ cppp >= 2)
            /\ portal = "Generic" <=> (gem = cppp \/ (gem > cppp /\ gem < 2) \/ (cppp > gem /\ cppp < 2))

\* C24 witness: a tie of 2 against 2 is classified Generic
C24_Witness ==
    /\ stage = "CLASSIFIED"
    /\ doc.found = {"GeM Portal", "NIT No"}
    /\ portal = "Generic"

(***************************************************************************)
(* Part 10: the cleanup on its own, clean_empty_fields                     *)
(***************************************************************************)
\* the strings of a field: placeholders in the letter case and with the
\* blanks a capability writes them, and a date
CleanLeaves ==
    {Str(""), Str("Not mentioned"), Str(" N/A "), Str("TBD"), Str("2024-01-01")}

CleanLists ==
    {List(<<>>), List(<<"">>), List(<<"Not mentioned">>), List(<<"2024-01-01", "">>)}

\* a metadata subtree holding what the cleanup removes elsewhere
CleanMetadata == Dict([portal_type |-> Str(""), files_processed |-> List(<<>>)])

\* the dictionaries handed to clean_empty_fields
CleanRecords ==
    {[k \in D |-> CASE k = "key_dates" -> kd
                    [] k = "documents_required" -> dr
                    [] k = "_metadata" -> CleanMetadata] :
        D \in SUBSET {"key_dates", "documents_required", "_metadata"},
        kd \in {Dict(f) : f \in Mappings({"bid_start", "bid_end"}, CleanLeaves)},
        dr \in CleanLists}

\* a caller hands clean_empty_fields a dictionary
InitClean ==
    /\ InitLimiter
    /\ InitNoBatch
    /\ InitNoText
    /\ InitNoCall
    /\ InitNoMerge
    /\ InitNoRefill
    /\ InitNoRun
    /\ InitNoAgain
    /\ tree \in CleanRecords
    /\ gaps = <<>>
    /\ cleaned = <<>>
    /\ spc = "start"

\* clean_empty_fields(data), lines 156-177, returns
CleanReturns ==
    /\ spc = "start"
    /\ cleaned' = clean_empty_fields(Dict(tree)).d
    /\ spc' = "done"
    /\ UNCHANGED <<tree, gaps>>
    /\ UNCHANGED <<bucketVars, windowVars, fanVars, textVars, callVars, mergeVars, refillVars, runVars, againVars>>

NextClean == CleanReturns

SpecClean == InitClean /\ [][NextClean]_vars

(***************************************************************************)
(* Claims about the cleanup                                                *)
(***************************************************************************)
\* a placeholder of the gap scan: a token of EMPTY_INDICATORS once lowered
\* and trimmed
Placeholder(x) == LowerStrip(x) \in EMPTY_INDICATORS

\* value v holds a placeholder: as a string, as an item of a list, or in a
\* field of a dictionary
HoldsPlaceholder(v) ==
    LET Flat(w) ==
            \/ w.t = "none"
            \/ w.t = "str" /\ Placeholder(w.s)
            \/ w.t = "list" /\ \E i \in 1..Len(w.l) : Placeholder(w.l[i])
    IN  \/ Flat(v)
        \/ v.t = "dict" /\ \E k \in DOMAIN v.d : Flat(v.d[k])

\* C25: what the cleanup returns holds no placeholder of the gap scan
\* outside the _metadata subtree, lists included, and holds the _metadata
\* subtree as it was
C25_NoPlaceholderLeft ==
    spc = "done" =>
        /\ \A k \in DOMAIN cleaned \ {"_metadata"} : ~HoldsPlaceholder(cleaned[k])
        /\ "_metadata" \in DOMAIN tree =>
              "_metadata" \in DOMAIN cleaned /\ cleaned["_metadata"] = tree["_metadata"]

(***************************************************************************)
(* Claims about the failures and the records of a run                      *)
(***************************************************************************)
\* C26: a run whose gap-refill call failed, by raising after its last
\* attempt or by an answer that cannot be used, returns no result record
C26_RefillFailureFatal ==
    fillErr # NoError => output = NoOutput

\* C27: when the structuring call of the selected strategy raises after its
\* last attempt the run aborts with that error: it is reported to the
\* caller, no result record is produced, and nothing runs after the
\* failure, neither gap-fill nor finalize
C27_RequiredCallFailureAborts ==
    /\ [][(Structuring /\ callPc = "raised") =>
             (stage' = "FAILED" /\ runErr' = callExc /\ output' = NoOutput)]_vars
    /\ [][stage = "FAILED" => (stage' = "FAILED" /\ output' = output /\ trace' = trace)]_vars
    /\ [](stage = "FAILED" => output = NoOutput)
    /\ []((stage = "FAILED" /\ runErr \in Errors) =>
             (S("GAP_FILL") \notin Events(trace) /\ S("FINALIZE") \notin Events(trace)))

C27_Witness ==
    /\ stage = "FAILED"
    /\ runErr = "429"
    /\ strategy = "SINGLE_PASS"
    /\ calls = 1
    /\ output = NoOutput

\* C28: a run that has completed gap-fill with critical gaps left in its
\* record completes normally: once past GAP_FILL it has returned the record
\* with a validation summary
C28_GapsNotAnError ==
    (E("GAP_FILL") \in Events(trace) /\ critical_missing(summary) > 0 /\ stage # "GAP_FILLED") =>
        /\ stage = "RETURNED"
        /\ output._metadata.validation.missing_fields
           = validate_extraction_completeness(summary, portal).missing_fields

\* a leaf of the candidate record: a string or a list of strings
LeafValue(v) == v.t = "str" \/ v.t = "list"

\* every leaf of record f is a string or a list of strings
Canonical(f) ==
    \A k \in DOMAIN f :
        IF IsDict(f[k]) THEN \A j \in DOMAIN f[k].d : LeafValue(f[k].d[j])
        ELSE LeafValue(f[k])

\* C29: after extraction, after gap-fill and at finalize, every leaf of the
\* candidate record and of the record returned is a string or a list of
\* strings, whatever the capability wrote in the field and whatever refill
\* merged in
C29_LeavesCanonical ==
    /\ Canonical(summary)
    /\ Canonical(output.summary)

\* C29 witness: refill merged an object into a date field, and the record
\* holds it as a string
C29_Witness ==
    /\ stage = "RETURNED"
    /\ summary["key_dates"].d["bid_end"] = Str("{\"bid_end\": \"2024-02-01\"}")
    /\ "key_dates" \in DOMAIN output.summary
    /\ output._metadata.fields_filled = 1

\* C30: no value of the wrong shape that the capability returns for a field
\* makes the run fail: the value is coerced, or the field becomes the empty
\* string
C30_CoercionNeverRaises ==
    runErr # "ValidationError"

(***************************************************************************)
(* Part 11: the consolidator's merge on its own, merge_micro_summaries     *)
(***************************************************************************)
\* the micro-summaries of a batch: answers of ReplyChars characters and the
\* two error markers, of 12 and 16 characters
MicroSummaries ==
    {Reply(Prompt(ChunkText(1))), ErrorMarker("429"), ErrorMarker("timeout")}

\* the character budgets: too small for any section, room for two or three
\* markers but for no answer, room for one answer, and the default
MergeLimits == {600, 660, 2700, MergeMaxChars}

\* a caller hands merge_micro_summaries the micro-summaries, the
\* pre-extracted data and max_chars
InitMergeContext ==
    /\ InitLimiter
    /\ InitNoBatch
    /\ InitNoText
    /\ InitNoCall
    /\ InitNoMerge
    /\ InitNoRefill
    /\ InitNoRun
    /\ InitNoAgain
    /\ tree \in {[summaries |-> q, rule_data |-> rd, max_chars |-> m] :
                    q \in SeqsUpTo(MicroSummaries, NumChunks + 1),
                    rd \in RuleData,
                    m \in MergeLimits}
    /\ gaps = <<>>
    /\ cleaned = <<>>
    /\ spc = "start"

\* merge_micro_summaries(summaries, rule_data, max_chars), lines 83-92,
\* returns
MergeContextReturns ==
    /\ spc = "start"
    /\ cleaned' = merge_micro_summaries(tree.summaries, tree.rule_data, tree.max_chars)
    /\ spc' = "done"
    /\ UNCHANGED <<tree, gaps>>
    /\ UNCHANGED <<bucketVars, windowVars, fanVars, textVars, callVars, mergeVars, refillVars, runVars, againVars>>

NextMergeContext == MergeContextReturns

SpecMergeContext == InitMergeContext /\ [][NextMergeContext]_vars

(***************************************************************************)
(* Claims about the consolidator's merge                                   *)
(***************************************************************************)
\* the characters of the context once the header and the first k sections
\* are in it (line 89, len("".join(context)))
UsedChars(t, k) ==
    LET RECURSIVE Sum(_)
        Sum(i) == IF i = 0 THEN MergeHeaderChars(t.rule_data)
                  ELSE Sum(i - 1) + 19 + SummaryChars(t.summaries[i])
    IN  Sum(k)

\* the section of summaries[i] fits after the first i - 1 (line 89)
FitsAfter(t, i) ==
    UsedChars(t, i) < t.max_chars - MergeHeaderChars(t.rule_data) - 500

\* C31: merge_micro_summaries returns the header block followed by a prefix
\* of the partial results, numbered 1..k in input order, each of them whole;
\* the prefix ends at the first partial that does not fit the budget, and
\* no later partial is included, whether it would fit or not
C31_PrefixOfPartials ==
    spc = "done" =>
        LET k == Len(cleaned.parts)
        IN  /\ cleaned.header = tree.rule_data
            /\ k <= Len(tree.summaries)
            /\ \A i \in 1..k :
                  /\ cleaned.parts[i].key = i
                  /\ cleaned.parts[i].body = tree.summaries[i]
                  /\ cleaned.parts[i].chars = 19 + SummaryChars(tree.summaries[i])
                  /\ FitsAfter(tree, i)
            /\ k < Len(tree.summaries) => ~FitsAfter(tree, k + 1)

\* a partial that did not fit was dropped with a later one that would have
\* fitted in its place
C31_Witness ==
    /\ spc = "done"
    /\ Len(cleaned.parts) = 1
    /\ Len(tree.summaries) >= 3
    /\ 19 + SummaryChars(tree.summaries[3]) + UsedChars(tree, 1)
          < tree.max_chars - MergeHeaderChars(tree.rule_data) - 500

(***************************************************************************)
(* Part 12: the answer parser on its own, validate_json_response           *)
(* (groq_client.py).  An answer is a sequence of characters.  A character  *)
(* that has no escape in a string of this module is named by its Python    *)
(* escape, as "\\v" for the line tabulation.  What json.loads returns is   *)
(* kept as a tagged value: a string by its characters, a number by its     *)
(* text, a list by its items and an object by its members in order.        *)
(***************************************************************************)
\* the characters str.strip() removes, those for which str.isspace holds
WS ==
    {" ", "\t", "\n", "\r", "\f", "\\v", "\\x1c", "\\x1d", "\\x1e", "\\x1f", "\\x85",
     "\\xa0", "\\u1680", "\\u2000", "\\u2001", "\\u2002", "\\u2003", "\\u2004",
     "\\u2005", "\\u2006", "\\u2007", "\\u2008", "\\u2009", "\\u200a", "\\u2028",
     "\\u2029", "\\u202f", "\\u205f", "\\u3000"}

\* str.strip(), line 138 and line 146
RECURSIVE LStrip(_)
LStrip(s) == IF s = <<>> \/ Head(s) \notin WS THEN s ELSE LStrip(Tail(s))

RECURSIVE RStrip(_)
RStrip(s) ==
    IF s = <<>> \/ s[Len(s)] \notin WS THEN s ELSE RStrip(SubSeq(s, 1, Len(s) - 1))

strip(s) == RStrip(LStrip(s))

\* the index of the first occurrence of pat in s, 0 when there is none
Find(s, pat) ==
    LET at == {i \in 1..(Len(s) - Len(pat) + 1) : SubSeq(s, i, i + Len(pat) - 1) = pat}
    IN  IF at = {} THEN 0 ELSE CHOOSE i \in at : \A j \in at : i <= j

\* pat in s
Contains(s, pat) == Find(s, pat) # 0

\* s.split(pat)[1] followed by .split(fence)[0] reads the text after the
\* first pat up to the next fence
AfterFirst(s, pat) == SubSeq(s, Find(s, pat) + Len(pat), Len(s))

\* s.split(pat)[0]
BeforeFirst(s, pat) == IF Contains(s, pat) THEN SubSeq(s, 1, Find(s, pat) - 1) ELSE s

\* the markdown fence, three backticks
Fence == <<"\\x60", "\\x60", "\\x60">>
FenceJson == Fence \o <<"j", "s", "o", "n">>

\* lines 141-144: the text inside the first markdown block, if there is one
StripFences(clean) ==
    IF Contains(clean, FenceJson)
       THEN BeforeFirst(AfterFirst(clean, FenceJson), Fence)
       ELSE IF Contains(clean, Fence)
               THEN BeforeFirst(AfterFirst(clean, Fence), Fence)
               ELSE clean

\* line 150, re.sub(r'(?<!\\)\n', r'\\n', clean): every line feed that does
\* not follow a backslash becomes a backslash and the letter n
RECURSIVE ReescapeFrom(_, _)
ReescapeFrom(s, i) ==
    IF i > Len(s) THEN <<>>
    ELSE (IF s[i] = "\n" /\ (i = 1 \/ s[i - 1] # "\\")
             THEN <<"\\", "n">>
             ELSE <<s[i]>>) \o ReescapeFrom(s, i + 1)

Reescape(s) == ReescapeFrom(s, 1)

\* the values json.loads returns
PStr(x) == <<"str", x>>
PDict(items) == <<"dict", items>>
PList(items) == <<"list", items>>
PNum(digits) == <<"num", digits>>
PLit(name) == <<"lit", name>>

\* json.JSONDecodeError
DecodeError == [ok |-> FALSE, v |-> <<>>, next |-> 0]

\* json/decoder.py, WHITESPACE: the blanks between the tokens of a JSON text
JsonWs == {" ", "\t", "\n", "\r"}

RECURSIVE SkipWs(_, _)
SkipWs(s, i) == IF i <= Len(s) /\ s[i] \in JsonWs THEN SkipWs(s, i + 1) ELSE i

\* the characters below U+0020, which a JSON string may not hold raw
ControlChars ==
    {"\n", "\t", "\r", "\f", "\\v", "\\x1c", "\\x1d", "\\x1e", "\\x1f"}
    \cup {"\\x00", "\\x01", "\\x02", "\\x03", "\\x04", "\\x05", "\\x06", "\\x07", "\\x08",
          "\\x0e", "\\x0f", "\\x10", "\\x11", "\\x12", "\\x13", "\\x14", "\\x15",
          "\\x16", "\\x17", "\\x18", "\\x19", "\\x1a", "\\x1b"}

\* json/decoder.py, BACKSLASH: what the letter after a backslash stands for
Unescaped(c) ==
    CASE c = "\"" -> "\""
      [] c = "\\" -> "\\"
      [] c = "/" -> "/"
      [] c = "b" -> "\\x08"
      [] c = "f" -> "\f"
      [] c = "n" -> "\n"
      [] c = "r" -> "\r"
      [] c = "t" -> "\t"

HexDigits ==
    <<"0", "1", "2", "3", "4", "5", "6", "7", "8", "9", "a", "b", "c", "d", "e", "f">>
UpperHex == <<"A", "B", "C", "D", "E", "F">>

\* the value of a hexadecimal digit, -1 for any other character
HexValue(c) ==
    IF \E k \in 1..16 : HexDigits[k] = c THEN (CHOOSE k \in 1..16 : HexDigits[k] = c) - 1
    ELSE IF \E k \in 1..6 : UpperHex[k] = c THEN 9 + CHOOSE k \in 1..6 : UpperHex[k] = c
    ELSE -1

\* the printable characters U+0020 to U+007E, in order
Printable ==
    <<" ", "!", "\"", "#", "$", "%", "&", "'", "(", ")", "*", "+", ",", "-", ".", "/",
      "0", "1", "2", "3", "4", "5", "6", "7", "8", "9", ":", ";", "<", "=", ">", "?",
      "@", "A", "B", "C", "D", "E", "F", "G", "H", "I", "J", "K", "L", "M", "N", "O",
      "P", "Q", "R", "S", "T", "U", "V", "W", "X", "Y", "Z", "[", "\\", "]", "^", "_",
      "\\x60", "a", "b", "c", "d", "e", "f", "g", "h", "i", "j", "k", "l", "m", "n", "o",
      "p", "q", "r", "s", "t", "u", "v", "w", "x", "y", "z", "{", "|", "}", "~">>

RECURSIVE Hex(_, _)
\* n written with the given number of hexadecimal digits
Hex(n, width) ==
    IF width = 0 THEN "" ELSE Hex(n \div 16, width - 1) \o HexDigits[(n % 16) + 1]

\* chr(n): the character when a string of this module can hold it, else its
\* Python escape
Chr(n) ==
    CASE n = 9 -> "\t"
      [] n = 10 -> "\n"
      [] n = 12 -> "\f"
      [] n = 13 -> "\r"
      [] n = 11 -> "\\v"
      [] n >= 32 /\ n <= 126 -> Printable[n - 31]
      [] n < 256 /\ n \notin {9, 10, 11, 12, 13} /\ (n < 32 \/ n > 126) -> "\\x" \o Hex(n, 2)
      [] n >= 256 /\ n < 65536 -> "\\u" \o Hex(n, 4)
      [] OTHER -> "\\U" \o Hex(n, 8)

\* json/decoder.py, _decode_uXXXX: the code the four characters from
\* position p on denote, -1 when they are not four hexadecimal digits
DecodeHex4(s, p) ==
    IF p + 3 > Len(s) \/ \E k \in p..(p + 3) : HexValue(s[k]) < 0 THEN -1
    ELSE HexValue(s[p]) * 4096 + HexValue(s[p + 1]) * 256
         + HexValue(s[p + 2]) * 16 + HexValue(s[p + 3])

\* the word w stands at position i of s
WordAt(s, i, w) == i + Len(w) - 1 <= Len(s) /\ SubSeq(s, i, i + Len(w) - 1) = w

\* json/decoder.py, py_scanstring, the escape at position j of s, a
\* backslash: the character it stands for and the position after it; \u
\* takes four hexadecimal digits, and a high surrogate followed by a \u with
\* a low surrogate is read with it as one character
EscapeAfterPair(s, j, uni, uni2) ==
    IF uni2 < 0 THEN DecodeError
    ELSE IF uni2 >= 56320 /\ uni2 <= 57343
       THEN [ok |-> TRUE, v |-> Chr(65536 + (uni - 55296) * 1024 + (uni2 - 56320)),
             next |-> j + 12]
       ELSE [ok |-> TRUE, v |-> Chr(uni), next |-> j + 6]

EscapeU(s, j, uni) ==
    IF uni < 0 THEN DecodeError
    ELSE IF uni >= 55296 /\ uni <= 56319 /\ WordAt(s, j + 6, <<"\\", "u">>)
       THEN EscapeAfterPair(s, j, uni, DecodeHex4(s, j + 8))
       ELSE [ok |-> TRUE, v |-> Chr(uni), next |-> j + 6]

ScanEscape(s, j) ==
    IF j + 1 > Len(s) THEN DecodeError
    ELSE CASE s[j + 1] \in {"\"", "\\", "/", "b", "f", "n", "r", "t"} ->
                  [ok |-> TRUE, v |-> Unescaped(s[j + 1]), next |-> j + 2]
           [] s[j + 1] = "u" -> EscapeU(s, j, DecodeHex4(s, j + 2))
           [] OTHER -> DecodeError

\* the character of a JSON string at position j, which is not its closing
\* quote: a raw control character is an error
ScanChar(s, j) ==
    CASE s[j] \in ControlChars -> DecodeError
      [] s[j] = "\\" -> ScanEscape(s, j)
      [] OTHER -> [ok |-> TRUE, v |-> s[j], next |-> j + 1]

\* json/decoder.py, py_scanstring: a JSON string from the character after its
\* opening quote on
RECURSIVE ScanString(_, _, _), ScanMore(_, _, _)
ScanMore(s, acc, c) ==
    IF c.ok THEN ScanString(s, c.next, Append(acc, c.v)) ELSE DecodeError

ScanString(s, j, acc) ==
    IF j > Len(s) THEN DecodeError
    ELSE IF s[j] = "\"" THEN [ok |-> TRUE, v |-> PStr(acc), next |-> j + 1]
    ELSE ScanMore(s, acc, ScanChar(s, j))

DecDigits == {"0", "1", "2", "3", "4", "5", "6", "7", "8", "9"}

RECURSIVE SkipDigits(_, _)
SkipDigits(s, i) == IF i <= Len(s) /\ s[i] \in DecDigits THEN SkipDigits(s, i + 1) ELSE i

\* json/scanner.py, NUMBER_RE, (-?(?:0|[1-9]\d*))(\.\d+)?([eE][-+]?\d+)?, part
\* by part: the integer from a on, the fraction at b, the exponent at c with
\* its digits from x on
IntEnd(s, i, a) ==
    IF a <= Len(s) /\ s[a] = "0" THEN a + 1
    ELSE IF a <= Len(s) /\ s[a] \in DecDigits THEN SkipDigits(s, a)
    ELSE i

FracEnd(s, b) ==
    IF b + 1 <= Len(s) /\ s[b] = "." /\ s[b + 1] \in DecDigits
       THEN SkipDigits(s, b + 1) ELSE b

ExpDigits(s, c, x) == IF x <= Len(s) /\ s[x] \in DecDigits THEN SkipDigits(s, x) ELSE c

ExpEnd(s, c) ==
    IF c <= Len(s) /\ s[c] \in {"e", "E"}
       THEN ExpDigits(s, c, IF c + 1 <= Len(s) /\ s[c + 1] \in {"+", "-"} THEN c + 2 ELSE c + 1)
       ELSE c

AfterInt(s, i, b) == IF b = i THEN i ELSE ExpEnd(s, FracEnd(s, b))

\* the position after the longest match of NUMBER_RE at i, or i when there
\* is none
NumberEnd(s, i) == AfterInt(s, i, IntEnd(s, i, IF i <= Len(s) /\ s[i] = "-" THEN i + 1 ELSE i))

\* the words json/scanner.py reads as floats, in the order it tries them
\* after the numbers
FloatWords ==
    << <<"N", "a", "N">>, <<"I", "n", "f", "i", "n", "i", "t", "y">>,
       <<"-", "I", "n", "f", "i", "n", "i", "t", "y">> >>
Literals == << <<"n", "u", "l", "l">>, <<"t", "r", "u", "e">>, <<"f", "a", "l", "s", "e">> >>

\* the word of ws that stands at position k of s, <<>> when none does
WordOf(s, k, ws) ==
    IF \E i \in 1..Len(ws) : WordAt(s, k, ws[i])
       THEN ws[CHOOSE i \in 1..Len(ws) : WordAt(s, k, ws[i])]
       ELSE <<>>

\* json/scanner.py, _scan_once, for a value that is no string, object or
\* list: null, true or false, else a number that ends at e, else NaN,
\* Infinity or -Infinity
AtomFloat(s, k, w) ==
    IF w # <<>> THEN [ok |-> TRUE, v |-> PNum(w), next |-> k + Len(w)] ELSE DecodeError

AtomNumber(s, k, e) ==
    IF e > k THEN [ok |-> TRUE, v |-> PNum(SubSeq(s, k, e - 1)), next |-> e]
    ELSE AtomFloat(s, k, WordOf(s, k, FloatWords))

ParseAtom(s, k, w) ==
    IF w # <<>> THEN [ok |-> TRUE, v |-> PLit(w), next |-> k + Len(w)]
    ELSE AtomNumber(s, k, NumberEnd(s, k))

\* dict[key] = value on the members read so far: a key read again keeps its
\* place and takes the new value
PutMember(items, key, value) ==
    IF \E k \in 1..Len(items) : items[k][1] = key
       THEN [k \in 1..Len(items) |-> IF items[k][1] = key THEN <<key, value>> ELSE items[k]]
       ELSE Append(items, <<key, value>>)

RECURSIVE ParseValue(_, _), ParseMembers(_, _, _), ParseItems(_, _, _),
          MemberKey(_, _, _), MemberColon(_, _, _, _), MemberValue(_, _, _, _),
          MemberEnd(_, _, _), ItemValue(_, _, _), ItemEnd(_, _, _)

\* json/decoder.py, JSONObject, from a member's opening quote at position m
\* on: the key, the colon at c, the value, and at e the comma before the
\* next member or the closing brace
ParseMembers(s, m, items) ==
    IF m > Len(s) \/ s[m] # "\"" THEN DecodeError
    ELSE MemberKey(s, items, ScanString(s, m + 1, <<>>))

MemberKey(s, items, key) ==
    IF key.ok THEN MemberColon(s, items, key.v[2], SkipWs(s, key.next)) ELSE DecodeError

MemberColon(s, items, key, c) ==
    IF c > Len(s) \/ s[c] # ":" THEN DecodeError
    ELSE MemberValue(s, items, key, ParseValue(s, SkipWs(s, c + 1)))

MemberValue(s, items, key, val) ==
    IF val.ok THEN MemberEnd(s, PutMember(items, key, val.v), SkipWs(s, val.next))
    ELSE DecodeError

MemberEnd(s, items, e) ==
    IF e > Len(s) THEN DecodeError
    ELSE IF s[e] = "}" THEN [ok |-> TRUE, v |-> PDict(items), next |-> e + 1]
    ELSE IF s[e] = "," THEN ParseMembers(s, SkipWs(s, e + 1), items)
    ELSE DecodeError

\* json/decoder.py, JSONArray, from the item at position m on: the item,
\* and at e the comma before the next item or the closing bracket
ParseItems(s, m, items) == ItemValue(s, items, ParseValue(s, m))

ItemValue(s, items, val) ==
    IF val.ok THEN ItemEnd(s, Append(items, val.v), SkipWs(s, val.next)) ELSE DecodeError

ItemEnd(s, items, e) ==
    IF e > Len(s) THEN DecodeError
    ELSE IF s[e] = "]" THEN [ok |-> TRUE, v |-> PList(items), next |-> e + 1]
    ELSE IF s[e] = "," THEN ParseItems(s, SkipWs(s, e + 1), items)
    ELSE DecodeError

\* the object or the list whose first member or item, or closing character
\* close, is at position m
ParseOpen(s, m, close) ==
    IF m <= Len(s) /\ s[m] = close
       THEN [ok |-> TRUE, v |-> IF close = "}" THEN PDict(<<>>) ELSE PList(<<>>),
             next |-> m + 1]
       ELSE IF close = "}" THEN ParseMembers(s, m, <<>>) ELSE ParseItems(s, m, <<>>)

\* json/scanner.py, py_make_scanner, _scan_once: the JSON value that starts
\* at position k
ParseValue(s, k) ==
    IF k > Len(s) THEN DecodeError
    ELSE CASE s[k] = "\"" -> ScanString(s, k + 1, <<>>)
           [] s[k] = "{" -> ParseOpen(s, SkipWs(s, k + 1), "}")
           [] s[k] = "[" -> ParseOpen(s, SkipWs(s, k + 1), "]")
           [] OTHER -> ParseAtom(s, k, WordOf(s, k, Literals))

\* json/decoder.py, decode: the value read is followed by blanks only
WholeText(s, r) == IF r.ok /\ SkipWs(s, r.next) > Len(s) THEN r ELSE DecodeError

\* json.loads(s): one value with nothing but blanks before and after it
json_loads(s) == WholeText(s, ParseValue(s, SkipWs(s, 1)))

\* line 155: the number of characters of the answer the error carries
ExcerptChars == 100

\* bug: the error carries the whole answer
ExcerptWhole(response) == response

\* line 155, response[:100]
Excerpt(response) == SubSeq(response, 1, Min(ExcerptChars, Len(response)))

\* lines 149-155: the second attempt, on the text with its line feeds
\* escaped, and the ValueError when it fails too
Attempted(response, two) ==
    IF two.ok THEN [ok |-> TRUE, v |-> two.v]
    ELSE [ok |-> FALSE, exc |-> "ValueError",
          msg |-> <<"Invalid JSON response from LLM: ", Excerpt(response), "...">>]

\* lines 147-151: the first attempt, one, and the second when it failed
FirstAttempt(response, clean, one) ==
    IF one.ok THEN [ok |-> TRUE, v |-> one.v]
    ELSE Attempted(response, json_loads(Reescape(clean)))

SecondAttempt(response, clean) == FirstAttempt(response, clean, json_loads(clean))

\* groq_client.py, validate_json_response, lines 124-155
validate_json_response(response) ==
    SecondAttempt(response, strip(StripFences(strip(response))))

\* the JSON texts of the answers: well formed on one line and on two, with
\* an escaped line feed, with a raw line feed inside a string, with raw line
\* feeds inside a string and between tokens, with a raw line feed after a
\* backslash, nested, without members, cut short, with two members and a
\* list and blanks of every kind, a list, with a raw tabulation inside a
\* string, with a number that starts with 0, and empty
AnswerBodies ==
    {<<"{", "\"", "a", "\"", ":", "\"", "a", "\"", "}">>,
     <<"{", "\n", "\"", "a", "\"", ":", " ", "\"", "a", "\"", "}">>,
     <<"{", "\"", "a", "\"", ":", "\"", "a", "\\", "n", "a", "\"", "}">>,
     <<"{", "\"", "a", "\"", ":", "\"", "a", "\n", "a", "\"", "}">>,
     <<"{", "\n", "\"", "a", "\"", ":", "\"", "a", "\n", "a", "\"", "}">>,
     <<"{", "\"", "a", "\"", ":", "\"", "a", "\\", "\n", "a", "\"", "}">>,
     <<"{", "\"", "a", "\"", ":", "{", "\"", "a", "\"", ":", "\"", "\n", "\"", "}", "}">>,
     <<"{", "}">>,
     <<"{", "\"", "a", "\"", ":", "\"", "a">>,
     <<"{", "\"", "a", "\"", ":", "\t", "\"", "a", "\"", ",", "\r", "\n",
       "\"", "b", "\"", ":", "[", "1", ".", "5", ",", " ", "n", "u", "l", "l", "]", "}">>,
     <<"[", "\"", "a", "\\", "t", "\"", ",", "t", "r", "u", "e", "]">>,
     <<"{", "\"", "a", "\"", ":", "\"", "a", "\t", "\"", "}">>,
     <<"{", "\"", "a", "\"", ":", "0", "1", "}">>,
     <<>>}

\* n letters of prose
Prose(n) == [i \in 1..n |-> "a"]

\* what an answer has before its JSON text: nothing, a fence with or without
\* the language tag, a blank line, a tabulation, a sentence, a long sentence and a fence
AnswerPrefixes ==
    {<<>>, FenceJson \o <<"\n">>, Fence \o <<"\n">>, <<" ", "\n">>, <<"\t">>,
     Prose(2) \o <<" ">>, Prose(ExcerptChars + 1) \o <<"\n">> \o FenceJson}

\* what an answer has after its JSON text
AnswerSuffixes ==
    {<<>>, <<"\r", "\n">>, <<"\n">> \o Fence, <<"\n">> \o Fence \o <<"\n">> \o Prose(2)}

Answers == {p \o b \o x : p \in AnswerPrefixes, b \in AnswerBodies, x \in AnswerSuffixes}

\* a caller hands validate_json_response an answer of the capability
InitParse ==
    /\ InitLimiter
    /\ InitNoBatch
    /\ InitNoText
    /\ InitNoCall
    /\ InitNoMerge
    /\ InitNoRefill
    /\ InitNoRun
    /\ InitNoAgain
    /\ tree \in Answers
    /\ gaps = <<>>
    /\ cleaned = <<>>
    /\ spc = "start"

\* validate_json_response(response) returns or raises
ParseReturns ==
    /\ spc = "start"
    /\ cleaned' = validate_json_response(tree)
    /\ spc' = "done"
    /\ UNCHANGED <<tree, gaps>>
    /\ UNCHANGED <<bucketVars, windowVars, fanVars, textVars, callVars, mergeVars, refillVars, runVars, againVars>>

NextParse == ParseReturns

SpecParse == InitParse /\ [][NextParse]_vars

(***************************************************************************)
(* Claims about the answer parser                                          *)
(***************************************************************************)
RECURSIVE Escaped(_)
\* the characters of a string written back with their escapes
Escaped(q) ==
    IF q = <<>> THEN <<>>
    ELSE (CASE Head(q) = "\n" -> <<"\\", "n">>
            [] Head(q) = "\t" -> <<"\\", "t">>
            [] Head(q) = "\r" -> <<"\\", "r">>
            [] Head(q) = "\f" -> <<"\\", "f">>
            [] Head(q) \in {"\"", "\\"} -> <<"\\", Head(q)>>
            [] OTHER -> <<Head(q)>>) \o Escaped(Tail(q))

RECURSIVE Dumps(_), DumpsAll(_, _)
\* the text of a parsed value written back on one line without blanks
Dumps(v) ==
    CASE v[1] = "str" -> <<"\"">> \o Escaped(v[2]) \o <<"\"">>
      [] v[1] \in {"num", "lit"} -> v[2]
      [] v[1] = "list" -> <<"[">> \o DumpsAll(v[2], FALSE) \o <<"]">>
      [] v[1] = "dict" -> <<"{">> \o DumpsAll(v[2], TRUE) \o <<"}">>

\* the items of a list, or the members of an object, with commas between
DumpsAll(items, members) ==
    IF items = <<>> THEN <<>>
    ELSE (IF members
             THEN <<"\"">> \o Escaped(Head(items)[1]) \o <<"\"", ":">> \o Dumps(Head(items)[2])
             ELSE Dumps(Head(items)))
         \o (IF Len(items) > 1 THEN <<",">> ELSE <<>>) \o DumpsAll(Tail(items), members)

\* a text without its blanks outside strings and with the raw line feeds
\* inside strings escaped
RECURSIVE Compact(_, _, _)
Compact(s, i, inString) ==
    IF i > Len(s) THEN <<>>
    ELSE CASE s[i] = "\\" /\ i < Len(s) /\ s[i + 1] # "\n" ->
                  <<s[i], s[i + 1]>> \o Compact(s, i + 2, inString)
           [] s[i] = "\"" -> <<s[i]>> \o Compact(s, i + 1, ~inString)
           [] s[i] = "\n" /\ inString -> <<"\\", "n">> \o Compact(s, i + 1, inString)
           [] s[i] \in JsonWs /\ ~inString -> Compact(s, i + 1, inString)
           [] OTHER -> <<s[i]>> \o Compact(s, i + 1, inString)

\* C32: validate_json_response parses the answer without its markdown
\* fences, tries once more with the raw line feeds escaped, and makes no
\* capability call; what it returns is the object the cleaned text denotes,
\* and when neither attempt parses it raises a ValueError whose message
\* carries the first ExcerptChars characters of the answer and no more
C32_ParseOrFail ==
    spc = "done" =>
        LET clean == strip(StripFences(strip(tree)))
        IN  /\ calls = 0 /\ callTries = 0 /\ callPc = "idle"
            /\ cleaned.ok =>
                  \/ Dumps(cleaned.v) = Compact(clean, 1, FALSE)
                  \/ Dumps(cleaned.v) = Compact(Reescape(clean), 1, FALSE)
            /\ ~cleaned.ok =>
                  /\ cleaned.exc = "ValueError"
                  /\ Len(cleaned.msg[2]) <= ExcerptChars
                  /\ IsPrefix(cleaned.msg[2], tree)
                  /\ ~json_loads(clean).ok
                  /\ ~json_loads(Reescape(clean)).ok

\* an answer of more than ExcerptChars characters in a markdown block, with
\* raw line feeds that the cleanup escaped, still does not parse and the
\* error carries its first ExcerptChars characters
C32_Witness ==
    /\ spc = "done"
    /\ ~cleaned.ok
    /\ Len(tree) > ExcerptChars
    /\ Contains(tree, FenceJson)
    /\ Reescape(strip(StripFences(strip(tree)))) # strip(StripFences(strip(tree)))
    /\ Len(cleaned.msg[2]) = ExcerptChars

(***************************************************************************)
(* The run under fair scheduling                                           *)
(***************************************************************************)
\* The event loop runs a task that is ready, every sleep ends and every
\* capability call in flight returns or raises: a run that can take a step
\* takes one.
FairnessRun == WF_vars(NextRun)

SpecRunLive == InitRun /\ [][NextRun]_vars /\ FairnessRun

\* the run is over: it returned a record or raised
RunOver == stage \in {"RETURNED", "FAILED"}

\* C33: every run ends, with a record returned from FINALIZE or with an
\* exception raised; no logical call, of the fan-out or of the run, makes
\* more than 5 attempts; the run makes one structuring call and at most one
\* refill call
C33_RunTerminates ==
    /\ <>RunOver
    /\ [](callTries <= 5)
    /\ [](\A i \in Chunk : attempt[i] + 1 <= 5)
    /\ [](calls <= 2)
    /\ [](BeforeGapFill => calls <= 1)
    /\ [](stage = "RETURNED" => output # NoOutput /\ runErr = NoError)
    /\ [](stage = "FAILED" => runErr # NoError /\ output = NoOutput)

\* a hierarchical run has returned a record after its fan-out, its
\* structuring call and a refill call
C33_Witness ==
    /\ stage = "RETURNED"
    /\ strategy = "HIERARCHICAL"
    /\ fanCalls >= 2
    /\ calls = 2
    /\ output # NoOutput

(***************************************************************************)
(* The rate budget controller: a sleeping waiter and the lock              *)
(***************************************************************************)
\* task t sleeps in wait_for on bucket b (line 50)
SleepsOn(t, b) == pc[t] = "sleep" /\ bucket[t] = b

\* task u is inside consume on bucket b and its request fits what the
\* bucket holds now
FitsNow(u, b) ==
    /\ pc[u] = "consume"
    /\ bucket[u] = b
    /\ Sufficient(b, Capped(b, Ask(u)), Refilled(b))

\* a step of consume by u that grants its request on bucket b
GrantedStep(u, b) ==
    /\ debited'[u][b] = Capped(b, Ask(u))
    /\ pc'[u] \in {"acquire", "granted"}
    /\ lock'[b] = NoTask

\* C34: a caller asleep in wait_for holds no bucket lock, so a concurrent
\* caller can enter consume at once, and when its request fits the capacity
\* available now it is granted in that step while the first caller is still
\* asleep
C34_SleeperHoldsNoLock ==
    /\ [](\A t \in Tasks, b \in Buckets : pc[t] = "sleep" => lock[b] # t)
    /\ [](\A t, u \in Tasks :
             (pc[t] = "sleep" /\ pc[u] = "acquire" /\ u # t) => ENABLED Acquire(u))
    /\ [][\A t, u \in Tasks, b \in Buckets :
             (SleepsOn(t, b) /\ u # t /\ FitsNow(u, b) /\ pc'[u] # pc[u])
                => (GrantedStep(u, b) /\ SleepsOn(t, b)'
                      /\ sleepLeft'[t] = sleepLeft[t])]_vars

\* while t1 sleeps on the token bucket for a request that does not fit,
\* with its sleep not yet over, t2 has taken the bucket's lock with a
\* request that fits
C34_Witness ==
    /\ SleepsOn("t1", "tpm")
    /\ sleepLeft["t1"] > 0
    /\ ~Sufficient("tpm", Capped("tpm", Ask("t1")), Refilled("tpm"))
    /\ lock["tpm"] = "t2"
    /\ FitsNow("t2", "tpm")

(***************************************************************************)
(* The chunk planner: greedy and bounded                                   *)
(***************************************************************************)
\* the chunk holds more than one line
ManyLines(c) == \E k \in 1..Len(c) : c[k] = NL

\* the first line of a chunk
FirstLine(c) == IF SplitLines(c) = <<>> THEN <<>> ELSE SplitLines(c)[1]

\* no chunk is the empty string
NoEmptyChunk == \A j \in 1..Len(text_chunks) : text_chunks[j] # <<>>

\* a chunk of several lines has at most max_chars characters, line feeds
\* included, so a chunk longer than max_chars is a single line
BoundedChunks ==
    \A j \in 1..Len(text_chunks) :
        /\ ManyLines(text_chunks[j]) => Len(text_chunks[j]) <= max_chars
        /\ Len(text_chunks[j]) > max_chars =>
              /\ ~ManyLines(text_chunks[j])
              /\ \E k \in 1..Len(SplitLines(text)) : SplitLines(text)[k] = text_chunks[j]

\* a chunk starts at a line that did not fit the chunk before it
GreedyChunks ==
    \A j \in 2..Len(text_chunks) :
        Len(text_chunks[j - 1]) + 1 + Len(FirstLine(text_chunks[j])) > max_chars

\* C35: chunk_text is greedy and bounded: no chunk is empty, a chunk of
\* more than one line has at most max_chars characters, a chunk longer than
\* max_chars is a single line that is itself longer, and a new chunk starts
\* only at a line that would not have fitted in the previous chunk
C35_GreedyBounded ==
    tpc = "done" => (NoEmptyChunk /\ BoundedChunks /\ GreedyChunks)

(***************************************************************************)
(* Part 13: the context builder on its own, prepare_smart_context          *)
(***************************************************************************)
\* the context budgets, in tokens: one that leaves a token or two for the
\* sections, two small ones and the default
ContextBudgets == {514, 1000, 2000, DEFAULT_CONTEXT_BUDGET}

\* the sections found in a text, by their lengths in characters
FoundSections ==
    UNION {[K -> {300, 5000}] :
              K \in SUBSET {section_map[k][1] : k \in 1..Len(section_map)}}

\* a caller hands prepare_smart_context a text that fits the budget or one
\* that does not, the pre-extracted data, the sections and the budget
InitSmartContext ==
    /\ InitLimiter
    /\ InitNoBatch
    /\ InitNoText
    /\ InitNoCall
    /\ InitNoMerge
    /\ InitNoRefill
    /\ InitNoRun
    /\ InitNoAgain
    /\ tree \in {[full_text |-> [len |-> n * b, found |-> {}, rx |-> <<>>],
                  rule_data |-> rd, sections |-> f, budget |-> b] :
                    n \in {0, 4}, b \in ContextBudgets,
                    rd \in RuleData, f \in FoundSections}
    /\ gaps = <<>>
    /\ cleaned = <<>>
    /\ spc = "start"

\* prepare_smart_context(full_text, rule_data, sections, budget), lines
\* 53-88, returns
SmartContextReturns ==
    /\ spc = "start"
    /\ cleaned' = prepare_smart_context(tree.full_text, tree.rule_data,
                                        tree.sections, tree.budget)
    /\ spc' = "done"
    /\ UNCHANGED <<tree, gaps>>
    /\ UNCHANGED <<bucketVars, windowVars, fanVars, textVars, callVars, mergeVars, refillVars, runVars, againVars>>

NextSmartContext == SmartContextReturns

SpecSmartContext == InitSmartContext /\ [][NextSmartContext]_vars

(***************************************************************************)
(* Claims about the context builder                                        *)
(***************************************************************************)
\* C36: when the full text does not fit the budget, the weights of the five
\* sections sum to 1.0, the characters allocated to the five sections
\* together, estimated in tokens as the budget is, do not exceed the tokens
\* left for them, and a section longer than its allocation is kept as a
\* head and a tail of equal size around the truncation marker
C36_AllocationsWithinBudget ==
    (spc = "done" /\ ~cleaned.complete) =>
        LET avail == Avail(tree.rule_data, tree.budget)
            entries == 1..Len(section_map)
            Weight == [k \in entries |-> section_map[k][3]]
            Allocated == [k \in entries |-> SectionLimit(avail, section_map[k][3])]
        IN  /\ SumOf(Weight, entries) = 100
            /\ estimate_tokens(SumOf(Allocated, entries)) <= avail
            /\ \A k \in 1..Len(cleaned.parts) :
                  cleaned.parts[k].cut =>
                     /\ cleaned.parts[k].head = cleaned.parts[k].tail
                     /\ cleaned.parts[k].chars = 2 * cleaned.parts[k].head + 21

(***************************************************************************)
(* Part 14: _deep_merge and fill_missing_fields on objects.  A dictionary  *)
(* is an object of the heap, known by its address; a value held by a       *)
(* dictionary is a leaf or the address of another dictionary.  An          *)
(* assignment result[key] = v writes into the object result names.         *)
(***************************************************************************)
\* a reference to the dictionary at address a
Ref(a) == [t |-> "ref", a |-> a]

\* obj[k] = v
SetKey(obj, k, v) == [x \in (DOMAIN obj) \cup {k} |-> IF x = k THEN v ELSE obj[x]]

\* the dictionary f built on heap h, its nested dictionaries first
RECURSIVE StoreKeys(_, _, _, _)
StoreKeys(h, f, ks, obj) ==
    IF ks = <<>> THEN [h |-> Append(h, obj), a |-> Len(h) + 1]
    ELSE LET k == Head(ks)
         IN  IF IsDict(f[k])
                THEN LET sub == StoreKeys(h, f[k].d, KeysOf(f[k].d), <<>>)
                     IN  StoreKeys(sub.h, f, Tail(ks), SetKey(obj, k, Ref(sub.a)))
                ELSE StoreKeys(h, f, Tail(ks), SetKey(obj, k, f[k]))

Store(h, f) == StoreKeys(h, f, KeysOf(f), <<>>)

\* the dictionary at address a of heap h, read as a value
RECURSIVE Load(_, _)
Load(h, a) ==
    [k \in DOMAIN h[a] |->
        IF h[a][k].t = "ref" THEN Dict(Load(h, h[a][k].a)) ELSE h[a][k]]

\* bug: result = base, the result is the base dictionary itself
AliasAt(h, b) == [h |-> h, a |-> b]

\* line 153, result = base.copy(): a new dictionary that holds what base
\* holds, nested dictionaries by reference
CopyAt(h, b) == [h |-> Append(h, h[b]), a |-> Len(h) + 1]

\* _deep_merge(base, updates), lines 151-159, on the dictionaries at b and
\* u: the heap after the call and the address returned
RECURSIVE deep_merge_at(_, _, _), MergeKeys(_, _, _, _)
MergeKeys(h, r, u, ks) ==
    IF ks = <<>> THEN h
    ELSE LET key == Head(ks)
             value == h[u][key]
         IN  IF value.t = "ref" /\ key \in DOMAIN h[r] /\ h[r][key].t = "ref"
                THEN LET sub == deep_merge_at(h, h[r][key].a, value.a)
                     IN  MergeKeys([sub.h EXCEPT ![r] = SetKey(@, key, Ref(sub.a))],
                                   r, u, Tail(ks))
                ELSE IF ~InEmptyIndicators(value)
                        THEN MergeKeys([h EXCEPT ![r] = SetKey(@, key, value)],
                                       r, u, Tail(ks))
                        ELSE MergeKeys(h, r, u, Tail(ks))

deep_merge_at(h, b, u) ==
    LET result == CopyAt(h, b)
    IN  [h |-> MergeKeys(result.h, result.a, u, KeysOf(h[u])), a |-> result.a]

\* lines 114-116 of fill_missing_fields, on the draft at d: its critical
\* gaps as the scan finds them
critical_at(h, d) == CriticalOf(find_missing_fields(Load(h, d), "", <<>>))

\* the dictionaries of the draft at d: the draft and its nested sections
RECURSIVE DraftObjects(_, _)
DraftObjects(h, d) ==
    {d} \cup UNION {DraftObjects(h, h[d][k].a) :
                       k \in {x \in DOMAIN h[d] : h[d][x].t = "ref"}}

\* the records merged on the heap
HeapRecords ==
    {[k \in D |-> IF k = "key_dates" THEN kd ELSE es] :
        D \in SUBSET {"key_dates", "executive_summary"},
        kd \in {None, Str("2024-01-01")}
                 \cup {Dict(f) : f \in Mappings({"bid_start", "bid_end"},
                                                {None, Str("Not mentioned"), Str("2024-02-01"),
                                                 Dict([bid_end |-> Str("2024-02-01")])})},
        es \in {None, Str("2024-01-01")}}

\* what another holder of the draft assigns to one of its keys while
\* fill_missing_fields is suspended, and how many such assignments
WrittenKeys == {"key_dates", "executive_summary", "bid_start", "bid_end"}
WrittenValues == {Str("2024-03-03"), Str("Not mentioned")}
MaxWrites == 1

\* a caller holds two dictionaries, base and updates, and hands them to
\* _deep_merge, or hands base to fill_missing_fields, whose extraction call
\* then answers with updates
InitMergeAt ==
    /\ InitLimiter
    /\ InitNoBatch
    /\ InitNoText
    /\ InitNoCall
    /\ InitNoMerge
    /\ InitNoRefill
    /\ InitNoRun
    /\ InitNoAgain
    /\ \E b \in HeapRecords, u \in HeapRecords :
          LET one == Store(<<>>, b)
              two == Store(one.h, u)
          IN  tree = [heap |-> two.h, base |-> one.a, updates |-> two.a, writes |-> 0]
    /\ gaps = <<>>
    /\ cleaned = <<>>
    /\ spc = "start"

\* _deep_merge(base, updates), lines 151-159, a function without an await:
\* it runs from call to return in one step
MergeAtReturns ==
    /\ spc = "start"
    /\ LET result == deep_merge_at(tree.heap, tree.base, tree.updates)
       IN  /\ tree' = [tree EXCEPT !.heap = result.h]
           /\ cleaned' = [fn |-> "_deep_merge", ok |-> TRUE, ret |-> result.a]
    /\ spc' = "done"
    /\ UNCHANGED gaps
    /\ UNCHANGED <<bucketVars, windowVars, fanVars, textVars, callVars, mergeVars, refillVars, runVars, againVars>>

\* fill_missing_fields(base, documents), lines 113-121: the scan of the
\* draft, the return of the draft itself when it has no critical gap (line
\* 119), else the await of the extraction call (line 121)
FillAtScans ==
    /\ spc = "start"
    /\ LET found == critical_at(tree.heap, tree.base)
       IN  IF NoCritical(found)
              THEN /\ cleaned' = [fn |-> "fill_missing_fields", ok |-> TRUE,
                                  ret |-> tree.base]
                   /\ spc' = "done"
                   /\ UNCHANGED gaps
              ELSE /\ gaps' = found
                   /\ spc' = "awaiting"
                   /\ UNCHANGED cleaned
    /\ UNCHANGED tree
    /\ UNCHANGED <<bucketVars, windowVars, fanVars, textVars, callVars, mergeVars, refillVars, runVars, againVars>>

\* while fill_missing_fields is suspended at line 121, another coroutine
\* that holds the draft assigns v to key k of the draft or of one of its
\* sections
DraftWritten(a, k, v) ==
    /\ spc = "awaiting"
    /\ tree.writes < MaxWrites
    /\ a \in DraftObjects(tree.heap, tree.base)
    /\ k \in DOMAIN tree.heap[a]
    /\ tree.heap[a][k] # v
    /\ tree' = [tree EXCEPT !.heap[a] = SetKey(@, k, v), !.writes = @ + 1]
    /\ UNCHANGED <<cleaned, gaps, spc>>
    /\ UNCHANGED <<bucketVars, windowVars, fanVars, textVars, callVars, mergeVars, refillVars, runVars, againVars>>

\* lines 121-126: the extraction call is over.  When it answered with the
\* dictionary updates (ok), line 123 merges the draft as it is now with
\* it; when the call or the parse of its answer raised, or the answer is
\* not a dictionary and _deep_merge raised at line 154, lines 124-126
\* return the draft itself
FillAtReturns(ok) ==
    /\ spc = "awaiting"
    /\ IF ok
          THEN LET result == deep_merge_at(tree.heap, tree.base, tree.updates)
               IN  /\ tree' = [tree EXCEPT !.heap = result.h]
                   /\ cleaned' = [fn |-> "fill_missing_fields", ok |-> TRUE,
                                  ret |-> result.a]
          ELSE /\ cleaned' = [fn |-> "fill_missing_fields", ok |-> FALSE,
                              ret |-> tree.base]
               /\ UNCHANGED tree
    /\ spc' = "done"
    /\ UNCHANGED gaps
    /\ UNCHANGED <<bucketVars, windowVars, fanVars, textVars, callVars, mergeVars, refillVars, runVars, againVars>>

NextMergeAt ==
    \/ MergeAtReturns
    \/ FillAtScans
    \/ \E a \in 1..Len(tree.heap), k \in WrittenKeys, v \in WrittenValues : DraftWritten(a, k, v)
    \/ \E ok \in BOOLEAN : FillAtReturns(ok)

SpecMergeAt == InitMergeAt /\ [][NextMergeAt]_vars

(***************************************************************************)
(* Claims about _deep_merge and fill_missing_fields on objects             *)
(***************************************************************************)
\* a step of _deep_merge or of fill_missing_fields, as against an
\* assignment of another holder of the draft, which leaves spc as it is
StepOfCall == spc' # spc

\* C37: no step of _deep_merge or of fill_missing_fields modifies a
\* dictionary that exists when the step is taken: the base record and its
\* nested sections are after the step what they were before it.  A merge
\* returns a new dictionary, whose value is the merge of base, as it is
\* when the merge runs, and updates; a refill that does not merge returns
\* the base record itself and creates nothing
C37_BaseNotModified ==
    [][StepOfCall =>
          /\ \A a \in 1..Len(tree.heap) : tree'.heap[a] = tree.heap[a]
          /\ Load(tree'.heap, tree.base) = Load(tree.heap, tree.base)
          /\ spc' = "done" =>
                /\ cleaned'.fn = "_deep_merge" => cleaned'.ret # tree.base
                /\ cleaned'.ret # tree.base =>
                      /\ cleaned'.ret \notin 1..Len(tree.heap)
                      /\ Load(tree'.heap, cleaned'.ret)
                            = deep_merge(Load(tree.heap, tree.base),
                                         Load(tree.heap, tree.updates))
                /\ cleaned'.ret = tree.base => tree'.heap = tree.heap]_vars

\* a refill has merged an answer into a record with a nested section that
\* another holder wrote to during the extraction call: the section of the
\* result is another dictionary than the section of the base, with another
\* value
C37_Witness ==
    /\ spc = "done"
    /\ cleaned.fn = "fill_missing_fields"
    /\ cleaned.ret # tree.base
    /\ tree.writes = 1
    /\ "key_dates" \in DOMAIN tree.heap[tree.base]
    /\ tree.heap[tree.base]["key_dates"].t = "ref"
    /\ tree.heap[cleaned.ret]["key_dates"].t = "ref"
    /\ tree.heap[cleaned.ret]["key_dates"].a # tree.heap[tree.base]["key_dates"].a
    /\ Load(tree.heap, cleaned.ret) # Load(tree.heap, tree.base)

(***************************************************************************)
(* The run's count of refilled fields                                      *)
(***************************************************************************)
\* the paths of the critical gaps of a record
CriticalGaps(rec) ==
    LET crit == CriticalOf(find_missing_fields(rec, "", <<>>))
    IN  {crit[k].path : k \in 1..Len(crit)}

\* C38: fields_filled is never negative; when the run comes out of gap-fill
\* it is the number of fields that were critical gaps before the refill and
\* are not after it, and 0 when the refill was skipped or left the record
\* as it was; it is what the metadata of the returned record holds
C38_FieldsFilledCount ==
    /\ [](fields_filled >= 0)
    /\ [](stage = "RETURNED" => output._metadata.fields_filled = fields_filled)
    /\ [][(stage = "GAP_FILL" /\ stage' = "GAP_FILLED") =>
             /\ fields_filled'
                   = Cardinality(CriticalGaps(summary) \ CriticalGaps(summary'))
             /\ summary' = summary => fields_filled' = 0]_vars
    /\ [][(stage = "EXTRACTED" /\ stage' = "GAP_FILLED") => fields_filled' = 0]_vars

(***************************************************************************)
(* Part 15: the request endpoint, process_tender_api (app/api/tender.py).  *)
(* A request is the list of the names of its files, each a sequence of     *)
(* characters; the response is the status and the detail of the exception  *)
(* raised, or the success body.                                            *)
(***************************************************************************)
\* tender.py, line 19: the largest number of files of a request
MaxFiles == 5

\* str.lower() on the letters of the model
LowerChar(c) ==
    CASE c = "A" -> "a" [] c = "P" -> "p" [] c = "D" -> "d" [] c = "F" -> "f"
      [] OTHER -> c

lower(s) == [i \in 1..Len(s) |-> LowerChar(s[i])]

\* str.endswith(suffix)
endswith(s, suffix) ==
    Len(s) >= Len(suffix) /\ SubSeq(s, Len(s) - Len(suffix) + 1, Len(s)) = suffix

\* line 23: f.filename.lower().endswith('.pdf')
IsPdfName(name) == endswith(lower(name), <<".", "p", "d", "f">>)

\* HTTPException(status_code, detail)
HTTPException(status_code, detail) ==
    [raised |-> TRUE, status_code |-> status_code, detail |-> detail]

NoException == [raised |-> FALSE, status_code |-> 0, detail |-> <<>>]

\* lines 17-24: the exception the checks of the request raise, if any
RequestCheck(pdf_files) ==
    IF pdf_files = <<>>
       THEN HTTPException(400, <<"At least one PDF file required">>)
    ELSE IF Len(pdf_files) > MaxFiles
       THEN HTTPException(400, <<"Maximum 5 files allowed">>)
    ELSE LET bad == {i \in 1..Len(pdf_files) : ~IsPdfName(pdf_files[i])}
         IN  IF bad # {}
                THEN HTTPException(400,
                        <<"Invalid file: ", pdf_files[CHOOSE i \in bad : \A j \in bad : i <= j]>>)
                ELSE NoException

\* lines 43-45, except Exception as e: HTTPException is an Exception too,
\* so whatever was raised inside the try block leaves as status 500 with
\* the text of the exception as its detail
Wrapped(e) == HTTPException(500, <<"str", e>>)

\* response_formatter.py: str.lower() on the strings of the model
LowerText(x) ==
    CASE x = "3 Years" -> "3 years"
      [] x = "25 Lakh" -> "25 lakh"
      [] x = "Yes, for MSEs" -> "yes, for mses"
      [] x = "Yes" -> "yes"
      [] x = "No" -> "no"
      [] x = "Indian firms" -> "indian firms"
      [] x = "" -> ""

\* "yes" in x.lower(), lines 69-89, on the strings of the model
HasYes(x) == LowerText(x) \in {"yes", "yes, for mses"}

\* a number and a boolean among the values of a dictionary
Num(n) == [t |-> "num", n |-> n]
Bool(b) == [t |-> "bool", b |-> b]

\* repr(v) and str(v), as an f-string writes a value, for the strings,
\* lists and dictionaries of the model
RECURSIVE Repr(_)
Repr(v) ==
    CASE v.t = "none" -> "None"
      [] v.t = "str" -> "'" \o v.s \o "'"
      [] v.t = "list" -> "[" \o JoinStr([i \in 1..Len(v.l) |-> "'" \o v.l[i] \o "'"], ", ") \o "]"
      [] v.t = "dict" ->
            LET ks == KeysOf(v.d)
            IN  "{" \o JoinStr([i \in 1..Len(ks) |-> "'" \o ks[i] \o "': " \o Repr(v.d[ks[i]])],
                               ", ") \o "}"

PyStr(v) == IF v.t = "str" THEN v.s ELSE Repr(v)

\* summary_parts.append(s) when cond
Part(cond, s) == IF cond THEN <<s>> ELSE <<>>

\* a value on which .lower() is called after "if value": it is truthy and
\* is not a string, so the call raises AttributeError
LowerRaises(v) == ~Falsy(v) /\ v.t # "str"

\* the fields of the snapshot on which _create_eligibility_summary calls
\* .lower(): lines 58, 69, 71, 79 and 89
LoweredFields ==
    {"experience_required", "mse_relaxation", "startup_relaxation",
     "consortium_or_jv_allowed", "international_bidders_allowed"}

\* response_formatter.py, _create_eligibility_summary, lines 41-92, on a
\* snapshot whose lowered fields are strings or empty
create_eligibility_summary(eligibility_snapshot) ==
    LET Field(k) == GetOr(eligibility_snapshot, k, Str(""))
        Yes(k) == ~Falsy(Field(k)) /\ HasYes(Field(k).s)
        exemptions == Part(Yes("mse_relaxation"), "MSME")
                      \o Part(Yes("startup_relaxation"), "Startup")
        summary_parts ==
            Part(~Falsy(Field("turnover_requirement")),
                 "Minimum " \o PyStr(Field("turnover_requirement")) \o " turnover")
            \o Part(~Falsy(Field("experience_required")),
                    "with " \o LowerText(Field("experience_required").s) \o " experience")
            \o Part(~Falsy(Field("oem_turnover_requirement")),
                    "OEM " \o PyStr(Field("oem_turnover_requirement")) \o " turnover")
            \o Part(exemptions # <<>>, JoinStr(exemptions, "/") \o " eligible with relaxation")
            \o Part(Yes("consortium_or_jv_allowed"), "Consortium/JV allowed")
            \o Part(~Falsy(Field("bidder_technical_infrastructure")),
                    "Digital certificate required")
            \o Part(Yes("international_bidders_allowed"), "International bidders welcome")
    IN  JoinStr(summary_parts, ". ") \o "."

\* format_tender_response(tender_data) raises: the snapshot is truthy and
\* is not a dictionary (line 26 calls .get on it), one of its lowered
\* fields is truthy and is not a string, vendor_decision_hint is there and
\* takes no key assignment (line 29), or _metadata is there and takes none
\* (line 36)
FormatRaises(tender_data) ==
    LET snapshot == GetOr(tender_data, "eligibility_snapshot", Dict(<<>>))
        pre_qual == Get(tender_data, "pre_qualification_requirement")
    IN  \/ /\ ~Falsy(snapshot)
           /\ \/ ~IsDict(snapshot)
              \/ \E k \in LoweredFields : LowerRaises(GetOr(snapshot.d, k, Str("")))
              \/ /\ "vendor_decision_hint" \in DOMAIN tender_data
                 /\ ~IsDict(tender_data["vendor_decision_hint"])
        \/ /\ ~Falsy(pre_qual)
           /\ "_metadata" \in DOMAIN tender_data
           /\ ~IsDict(tender_data["_metadata"])

\* response_formatter.py, format_tender_response, lines 12-38, when it does
\* not raise: the copy of the record with the eligibility summary under
\* vendor_decision_hint.eligible_if when the snapshot is not empty, without
\* pre_qualification_requirement, which goes under _metadata when it is
\* not empty, and with a _metadata in any case
format_tender_response(tender_data) ==
    LET snapshot == GetOr(tender_data, "eligibility_snapshot", Dict(<<>>))
        hint == GetOr(tender_data, "vendor_decision_hint", Dict(<<>>)).d
        hinted ==
            IF Falsy(snapshot) THEN tender_data
            ELSE Updated(tender_data,
                    [vendor_decision_hint |->
                        Dict(Updated(hint,
                                [eligible_if |-> Str(create_eligibility_summary(snapshot.d))]))])
        pre_qual == Get(tender_data, "pre_qualification_requirement")
        popped == [k \in (DOMAIN hinted) \ {"pre_qualification_requirement"} |-> hinted[k]]
        meta == GetOr(popped, "_metadata", Dict(<<>>))
    IN  Updated(popped,
           [_metadata |-> IF Falsy(pre_qual) THEN meta
                          ELSE Dict(Updated(meta.d, [pre_qualification_requirement |-> pre_qual]))])

\* lines 121-125 and 128-132: both use the standard formatting
format_gem_response(tender_data) == format_tender_response(tender_data)
format_cppp_response(tender_data) == format_tender_response(tender_data)

\* response_formatter.py, format_response_by_portal, lines 135-144
format_response_by_portal(tender_data, portal_type) ==
    CASE portal_type = Str("GeM") -> format_gem_response(tender_data)
      [] portal_type = Str("CPPP") -> format_cppp_response(tender_data)
      [] OTHER -> format_tender_response(tender_data)

\* tender.py, lines 29-40, raise on the record the run returned: _metadata
\* or tender_meta is there and is not a dictionary (.get is called on it),
\* or the formatting raises
ResponseRaises(run) ==
    \/ "_metadata" \in DOMAIN run /\ ~IsDict(run["_metadata"])
    \/ FormatRaises(run)
    \/ "tender_meta" \in DOMAIN run /\ ~IsDict(run["tender_meta"])

\* tender.py, lines 29-42: the body of the success response for the record
\* the run returned
SuccessBody(run) ==
    LET portal_type == GetOr(GetOr(run, "_metadata", Dict(<<>>)).d, "portal_type",
                             Str("Generic"))
        formatted_summary == format_response_by_portal(run, portal_type)
    IN  [status |-> "success",
         tender_id |-> GetOr(GetOr(formatted_summary, "tender_meta", Dict(<<>>)).d,
                             "tender_id", Str("")),
         summary |-> formatted_summary,
         metadata |-> GetOr(formatted_summary, "_metadata", Dict(<<>>)),
         message |-> "Tender(s) processed and summarized successfully"]

\* the names of the files of the model
FileNames ==
    {<<"a", ".", "p", "d", "f">>, <<"A", ".", "P", "D", "F">>,
     <<"a", ".", "t", "x", "t">>, <<"p", "d", "f">>}

\* the requests of the model: every list of up to two names, and the lists
\* around the limit of MaxFiles, with and without a name that is no PDF's
ApiRequests ==
    SeqsUpTo(FileNames, 2)
    \cup {[i \in 1..n |-> <<"a", ".", "p", "d", "f">>] : n \in 3..(MaxFiles + 1)}
    \cup {[i \in 1..n |-> IF i = n THEN <<"a", ".", "t", "x", "t">>
                                   ELSE <<"a", ".", "p", "d", "f">>] :
             n \in {MaxFiles, MaxFiles + 1}}

\* the characters of a name as one string
RECURSIVE StrOf(_)
StrOf(q) == IF q = <<>> THEN "" ELSE Head(q) \o StrOf(Tail(q))

\* TenderSummary(...).model_dump() at the end of a run, for the fields the
\* model keeps; every other field holds its default, which the cleanup
\* removes
ApiDump(tender_id, who, turnover, experience, mse, not_eligible, pre_qual) ==
    [tender_meta |-> Dict([tender_id |-> Str(tender_id)]),
     key_dates |-> Dict([bid_end |-> Str("")]),
     eligibility_snapshot |->
         Dict([who_can_bid |-> Str(who), turnover_requirement |-> Str(turnover),
               experience_required |-> Str(experience), mse_relaxation |-> Str(mse)]),
     vendor_decision_hint |-> Dict([eligible_if |-> Str(""), not_eligible_if |-> Str(not_eligible)]),
     documents_required |-> List(<<>>),
     pre_qualification_requirement |-> Str(pre_qual)]

\* the records of the model at the end of a run: nothing found; everything
\* found; a snapshot that names the bidders only; the pre-qualification
\* only; the experience and the identifier
ApiDumps ==
    {ApiDump("", "", "", "", "", "", ""),
     ApiDump("AB/2024/17", "Indian firms", "25 Lakh", "3 Years", "Yes, for MSEs",
             "Blacklisted firms", "Turnover: 25 Lakh | Experience: 3 Year(s)"),
     ApiDump("", "Indian firms", "", "", "", "", ""),
     ApiDump("", "", "", "", "", "", "Turnover: 25 Lakh | Experience: 3 Year(s)"),
     ApiDump("AB/2024/17", "", "", "3 Years", "", "", "")}

\* the validation record as a value of _metadata
TagValidation(v) ==
    Dict([is_valid |-> Bool(v.is_valid),
          missing_fields |-> List(v.missing_fields),
          warnings |-> List(v.warnings),
          portal_type |-> Str(v.portal_type),
          validation_summary |->
              Dict([total_issues |-> Num(v.validation_summary.total_issues),
                    missing_fields_count |-> Num(v.validation_summary.missing_fields_count),
                    warnings_count |-> Num(v.validation_summary.warnings_count)])])

\* the token estimate and the refill count a run of the model reports
ApiTokens == 120
ApiFieldsFilled == 0

\* summarizer.py, lines 141-151: what process_tender_multi_file returns for
\* the files pdf_files when its record is dump and its portal portal_type
RunRecord(dump, pdf_files, portal_type) ==
    clean_empty_fields(Dict(Updated(dump,
        [_metadata |->
            Dict([portal_type |-> Str(portal_type),
                  files_processed |-> List([i \in 1..Len(pdf_files) |-> StrOf(pdf_files[i])]),
                  total_tokens |-> Num(ApiTokens),
                  fields_filled |-> Num(ApiFieldsFilled),
                  validation |->
                      TagValidation(validate_extraction_completeness(dump, portal_type))])]))).d

\* how the processing run of a request ends: it raises, as every run does
\* whose validation raises, or it returns a record
RunRaised == [raised |-> TRUE, record |-> <<>>]

RunOutcomes(pdf_files) ==
    {RunRaised}
    \cup {[raised |-> FALSE, record |-> RunRecord(x[1], pdf_files, x[2])] :
             x \in {y \in ApiDumps \X {"GeM", "CPPP", "Generic"} :
                       ~ValidationRaises(y[1], y[2])}}

\* the requests the endpoint serves at a time
NumRequests == 2
Req == 1..NumRequests

\* requests have reached process_tender_api, each with its list of files
InitApi ==
    /\ InitLimiter
    /\ InitNoBatch
    /\ InitNoText
    /\ InitNoCall
    /\ InitNoMerge
    /\ InitNoRefill
    /\ InitNoRun
    /\ InitNoAgain
    /\ tree \in [Req -> ApiRequests]
    /\ gaps = <<>>
    /\ cleaned = [r \in Req |-> <<>>]
    /\ spc = [r \in Req |-> "start"]

\* process_tender_api(pdf_files), lines 16-26, for request r: the checks,
\* whose exception is wrapped by lines 43-45, and when they pass the call
\* of process_tender_multi_file, on which the handler is suspended
ApiChecks(r) ==
    /\ spc[r] = "start"
    /\ LET e == RequestCheck(tree[r])
       IN  IF e.raised
              THEN /\ cleaned' = [cleaned EXCEPT ![r] =
                                     [started |-> FALSE, run |-> "none",
                                      response |-> Wrapped(e)]]
                   /\ spc' = [spc EXCEPT ![r] = "done"]
              ELSE /\ cleaned' = [cleaned EXCEPT ![r] =
                                     [started |-> TRUE, run |-> "running",
                                      response |-> NoException]]
                   /\ spc' = [spc EXCEPT ![r] = "running"]
    /\ UNCHANGED <<tree, gaps>>
    /\ UNCHANGED <<bucketVars, windowVars, fanVars, textVars, callVars, mergeVars, refillVars, runVars, againVars>>

\* lines 26-45: what the handler does with the outcome of its processing
\* run.  An exception of the run, or of lines 29-40 on its record, is
\* wrapped; else the response is the success body
RunResponse(run) ==
    IF run.raised
       THEN [started |-> TRUE, run |-> "raised",
             response |-> Wrapped([raised |-> TRUE, status_code |-> 0,
                                   detail |-> <<"Exception">>])]
    ELSE IF ResponseRaises(run.record)
       THEN [started |-> TRUE, run |-> "returned",
             response |-> Wrapped([raised |-> TRUE, status_code |-> 0,
                                   detail |-> <<"AttributeError or TypeError">>])]
       ELSE [started |-> TRUE, run |-> "returned",
             response |-> [raised |-> FALSE, status_code |-> 200,
                           detail |-> <<"success">>,
                           body |-> SuccessBody(run.record)]]

\* the processing run of request r is over and the handler goes on from
\* line 26 to its return
ApiReturns(r, run) ==
    /\ spc[r] = "running"
    /\ cleaned' = [cleaned EXCEPT ![r] = RunResponse(run)]
    /\ spc' = [spc EXCEPT ![r] = "done"]
    /\ UNCHANGED <<tree, gaps>>
    /\ UNCHANGED <<bucketVars, windowVars, fanVars, textVars, callVars, mergeVars, refillVars, runVars, againVars>>

NextApi ==
    \/ \E r \in Req : ApiChecks(r)
    \/ \E r \in Req : \E run \in RunOutcomes(tree[r]) : ApiReturns(r, run)

SpecApi == InitApi /\ [][NextApi]_vars

(***************************************************************************)
(* Claims about the request endpoint                                       *)
(***************************************************************************)
\* the request has no file, more than 5 files, or a file whose name does
\* not end in .pdf
BadRequest(files) ==
    \/ Len(files) = 0
    \/ Len(files) > 5
    \/ \E i \in 1..Len(files) : ~IsPdfName(files[i])

\* C39: a request with no files, with more than 5 files or with a file
\* whose name does not end in .pdf is answered with status 400 and the
\* detail of the check that failed, and no processing run is started;
\* status 500 is the answer only when the processing run itself failed
C39_Rejects400 ==
    \A r \in Req :
        spc[r] = "done" =>
            /\ BadRequest(tree[r]) =>
                  /\ cleaned[r].response.status_code = 400
                  /\ cleaned[r].response.detail = RequestCheck(tree[r]).detail
                  /\ ~cleaned[r].started
            /\ cleaned[r].response.status_code = 500 =>
                  (cleaned[r].started /\ cleaned[r].run = "raised")

====
